---- MODULE Spec2Model ----
(***************************************************************************)
(* A state-machine model of rift's Reactor (src/actor/reactor.rs), of the  *)
(* LayoutEngine it drives (src/layout_engine/engine.rs) and of the scroll  *)
(* layout system (src/layout_engine/systems/scroll.rs).                    *)
(*                                                                         *)
(* The reactor is a single-threaded event loop: one action of the model is *)
(* one call of Reactor::handle_event, including every layout event it      *)
(* sends to the engine and every layout pass (update_layout) it runs.      *)
(* Handlers are written as operators from a record of the reactor's fields *)
(* to the record after the handler; the action then stores the record in   *)
(* the variables.                                                          *)
(*                                                                         *)
(* Abstractions.                                                           *)
(*  - A CGRect is a record [scr, pos, size]: the screen rectangle holding  *)
(*    the frame's centre, a position on that screen (0 is the hidden       *)
(*    corner, i > 0 the i-th strip position) and its width in hundredths   *)
(*    of the screen's width.                                               *)
(*  - Widths and scroll offsets are kept in hundredths (1.0 is 100).       *)
(*  - A window server id is the window id itself; a window belongs to the  *)
(*    process PidOf(w).                                                    *)
(*  - A layout is named by (space, workspace) instead of a LayoutId.       *)
(*  - Raise requests leave the reactor; a handler records the ones it     *)
(*    sends in the out field of the record, which is empty again when the  *)
(*    next handler starts. Requests to applications and to the event tap   *)
(*    are left out.                                                        *)
(*  - Instant::now() is the variable now, in milliseconds; the window the  *)
(*    window server finds under the cursor is window_under_cursor.         *)
(*  - space_is_fullscreen and space_is_user are answers of the window      *)
(*    server: native fullscreen spaces are the ids of FullscreenSpaceIds,  *)
(*    user spaces the ids of Spaces.                                       *)
(*  - events_tx is the reactor's own queue: the events a handler           *)
(*    synthesizes are appended and delivered by a later action.            *)
(*  - For occlusion a frame is the interval of its screen that it covers   *)
(*    (CGRect); all frames have the height of the screen.                  *)
(***************************************************************************)
EXTENDS Integers, Sequences, FiniteSets, TLC

\* ------------------------------------------------------------------------
\* Bounds and domains
\* ------------------------------------------------------------------------
MaxTxid == 2

\* windows 1 and 2 of one application, window 3 of another
WindowIds == {1, 2, 3}
Spaces == {1, 2}
Workspaces == {1, 2}
ScreenIds == {1, 2}
\* the id of a native fullscreen space: space_is_fullscreen holds of it,
\* space_is_user of the ids of Spaces
FullscreenSpaceIds == {3}

None == 0
NoIdx == -1

PidOf(w) == IF w = 3 THEN 2 ELSE 1
Pids == {PidOf(w) : w \in WindowIds}

\* TLC keeps a function constructor unevaluated and evaluates it again at
\* every application; explicit(f) is f, evaluated once (f @@ << >> = f)
explicit(f) == f @@ << >>

\* TLC can evaluate an argument again at every use of the
\* parameter; value(S) is the element of the singleton S, so that
\* value({F(x) : x \in {e}}) is F(e) with e evaluated once
value(S) == CHOOSE x \in S : TRUE

Max(a, b) == IF a >= b THEN a ELSE b
Min(a, b) == IF a <= b THEN a ELSE b

\* ------------------------------------------------------------------------
\* Frames
\* ------------------------------------------------------------------------
Frame(s, p, z) == [scr |-> s, pos |-> p, size |-> z]
Positions == 0..Cardinality(WindowIds)
Sizes == {100, 200}
Frames == {Frame(s, p, z) : s \in ScreenIds, p \in Positions, z \in Sizes}

\* ------------------------------------------------------------------------
\* Scroll layout system (systems/scroll.rs), widths in hundredths
\* ------------------------------------------------------------------------
MIN_WIDTH_UNITS == 20
default_window_ratio == 100
MaxWidth == 200
\* ScrollLayoutSettings::snap_threshold, the default of the configuration
snap_threshold == 50

ScrollLayoutState_default ==
    [windows |-> << >>, selected |-> None, widths |-> << >>,
     scroll_offset |-> 0, direction |-> "Forward"]

\* Vec::iter().position: 0-based index of the first occurrence
position(seq, x) ==
    IF \E i \in 1..Len(seq) : seq[i] = x
    THEN (CHOOSE i \in 1..Len(seq) :
              seq[i] = x /\ \A j \in 1..(i - 1) : seq[j] # x) - 1
    ELSE NoIdx

\* Vec::remove / Vec::insert / slice::swap with 0-based indices
vec_remove(seq, idx) ==
    explicit([i \in 1..(Len(seq) - 1) |-> IF i <= idx THEN seq[i] ELSE seq[i + 1]])
vec_insert(seq, idx, x) ==
    explicit([i \in 1..(Len(seq) + 1) |->
        IF i <= idx THEN seq[i] ELSE IF i = idx + 1 THEN x ELSE seq[i - 1]])
vec_swap(seq, a, b) ==
    explicit([i \in 1..Len(seq) |->
        IF i = a + 1 THEN seq[b + 1] ELSE IF i = b + 1 THEN seq[a + 1]
        ELSE seq[i]])

max_offset(s) ==
    IF Len(s.windows) > 1 THEN (Len(s.windows) - 1) * 100 ELSE 0

clamp(x, lo, hi) == IF x < lo THEN lo ELSE IF x > hi THEN hi ELSE x

clamp_offset(s) ==
    IF max_offset(s) = 0 THEN [s EXCEPT !.scroll_offset = 0]
    ELSE [s EXCEPT !.scroll_offset = clamp(s.scroll_offset, 0, max_offset(s))]

selected_index(s) ==
    IF s.selected = None THEN NoIdx ELSE position(s.windows, s.selected)

ensure_widths(s, default_ratio) ==
    LET fallback == Max(default_ratio, MIN_WIDTH_UNITS)
        n == Len(s.windows)
        resized == explicit([i \in 1..n |->
                      IF i <= Len(s.widths) THEN s.widths[i] ELSE fallback])
        fixed == explicit([i \in 1..n |->
                      IF resized[i] < MIN_WIDTH_UNITS THEN fallback
                      ELSE resized[i]])
    IN  [s EXCEPT !.widths =
            IF \A i \in 1..n : fixed[i] <= 0
            THEN explicit([i \in 1..n |-> fallback])
            ELSE fixed]

\* ensure_selection that keeps a selected window the strip has lost
ensure_selection_of_empty(s, default_ratio) ==
    LET s1 == ensure_widths(s, default_ratio)
    IN  IF Len(s1.windows) = 0
        THEN [s1 EXCEPT !.selected = None, !.scroll_offset = 0]
        ELSE [clamp_offset(s1) EXCEPT !.scroll_offset =
                 clamp(@, 0, max_offset(s1))]

ensure_selection(s, default_ratio) ==
    LET clamped(s3) ==
            [s3 EXCEPT !.scroll_offset =
                clamp(s3.scroll_offset, 0, max_offset(s3))]
        reselect(s1) ==
            IF Len(s1.windows) = 0
            THEN [s1 EXCEPT !.selected = None, !.scroll_offset = 0]
            ELSE clamped(clamp_offset(
                     IF selected_index(s1) = NoIdx
                     THEN [s1 EXCEPT !.selected = s1.windows[1],
                                     !.scroll_offset = 0]
                     ELSE s1))
    IN  reselect(ensure_widths(s, default_ratio))

\* ScrollLayoutState::remove_window; the result carries "removed"
state_remove_window(s, wid, default_ratio) ==
    LET idx == position(s.windows, wid)
    IN  IF idx = NoIdx THEN [state |-> s, removed |-> FALSE]
        ELSE
        LET ws == vec_remove(s.windows, idx)
            wd == IF idx < Len(s.widths) THEN vec_remove(s.widths, idx)
                  ELSE s.widths
            s1 == [s EXCEPT !.windows = ws, !.widths = wd]
            s2 == IF Len(ws) = 0
                  THEN [s1 EXCEPT !.selected = None, !.scroll_offset = 0]
                  ELSE IF s.selected = wid
                  THEN LET new_idx == IF idx >= Len(ws) THEN Len(ws) - 1
                                      ELSE idx
                       IN  [s1 EXCEPT !.selected = ws[new_idx + 1],
                                      !.scroll_offset = new_idx * 100]
                  ELSE IF selected_index(s1) # NoIdx
                  THEN [s1 EXCEPT !.scroll_offset = selected_index(s1) * 100]
                  ELSE s1
        IN  [state |-> ensure_widths(s2, default_ratio), removed |-> TRUE]

add_window_after_selection(s, wid) ==
    LET insert_idx == IF selected_index(s) # NoIdx
                      THEN selected_index(s) + 1 ELSE Len(s.windows)
        s1 == [s EXCEPT !.windows = vec_insert(s.windows, insert_idx, wid),
                        !.widths = vec_insert(s.widths, insert_idx,
                                              default_window_ratio),
                        !.selected = wid]
        s2 == [s1 EXCEPT !.scroll_offset =
                  Min(insert_idx * 100, max_offset(s1))]
    IN  ensure_widths(s2, default_window_ratio)

with_selected_offset(s) ==
    [s EXCEPT !.scroll_offset =
        IF selected_index(s) # NoIdx THEN selected_index(s) * 100 ELSE 0]

\* body of the loop of ScrollLayoutSystem::remove_window for one layout
sys_remove_window(s, wid) ==
    LET removed(res) ==
            IF ~res.removed THEN s
            ELSE with_selected_offset(
                     ensure_selection(res.state, default_window_ratio))
    IN  removed(state_remove_window(s, wid, default_window_ratio))

\* the windows of a Vec that do not belong to pid, in order
RECURSIVE drop_pid(_, _, _)
drop_pid(ws, wd, pid) ==
    IF Len(ws) = 0 THEN [windows |-> << >>, widths |-> << >>]
    ELSE LET rest == drop_pid(Tail(ws), Tail(wd), pid)
         IN  IF PidOf(Head(ws)) = pid THEN rest
             ELSE [windows |-> <<Head(ws)>> \o rest.windows,
                   widths |-> <<Head(wd)>> \o rest.widths]

first_index_of_pid(ws, pid) ==
    IF \E i \in 1..Len(ws) : PidOf(ws[i]) = pid
    THEN (CHOOSE i \in 1..Len(ws) :
              PidOf(ws[i]) = pid /\ \A j \in 1..(i - 1) : PidOf(ws[j]) # pid)
         - 1
    ELSE NoIdx

RECURSIVE insert_all(_, _, _, _)
insert_all(seq, idx, items, fill) ==
    IF Len(items) = 0 THEN seq
    ELSE insert_all(vec_insert(seq, idx,
                               IF fill = None THEN Head(items) ELSE fill),
                    idx + 1, Tail(items), fill)

set_windows_for_app(s, pid, desired) ==
    LET fi == first_index_of_pid(s.windows, pid)
        removed_selected == /\ s.selected # None
                            /\ PidOf(s.selected) = pid
                            /\ position(s.windows, s.selected) # NoIdx
        kept == drop_pid(s.windows, s.widths, pid)
        insert_idx == IF fi # NoIdx THEN fi ELSE Len(kept.windows)
        emptied(s2) ==
            with_selected_offset(
                IF removed_selected
                THEN ensure_selection(s2, default_window_ratio)
                ELSE clamp_offset(s2))
        inserted(s2) ==
            with_selected_offset(ensure_selection(
                IF removed_selected
                THEN [s2 EXCEPT !.selected = desired[1],
                                !.scroll_offset = Min(insert_idx * 100,
                                                      max_offset(s2))]
                ELSE s2,
                default_window_ratio))
    IN  IF Len(desired) = 0
        THEN emptied(ensure_widths(
                 [s EXCEPT !.windows = kept.windows, !.widths = kept.widths],
                 default_window_ratio))
        ELSE inserted(
                 [s EXCEPT
                    !.windows = insert_all(kept.windows, insert_idx,
                                           desired, None),
                    !.widths = insert_all(kept.widths, insert_idx, desired,
                                          default_window_ratio)])

\* has_windows_for_app, looking at the selected window only
has_selected_window_for_app(s, pid) ==
    s.selected # None /\ PidOf(s.selected) = pid

remove_windows_for_app(s, pid) ==
    LET removed_selected ==
            \E i \in 1..Len(s.windows) :
                PidOf(s.windows[i]) = pid /\ s.selected = s.windows[i]
        kept == drop_pid(s.windows, s.widths, pid)
        s1 == ensure_widths(
                  [s EXCEPT !.windows = kept.windows, !.widths = kept.widths],
                  default_window_ratio)
        s2 == IF removed_selected
              THEN ensure_selection(s1, default_window_ratio)
              ELSE clamp_offset(s1)
    IN  IF selected_index(s2) # NoIdx
        THEN [s2 EXCEPT !.scroll_offset = selected_index(s2) * 100]
        ELSE IF Len(s2.windows) = 0 THEN [s2 EXCEPT !.scroll_offset = 0]
        ELSE s2

has_windows_for_app(s, pid) ==
    \E i \in 1..Len(s.windows) : PidOf(s.windows[i]) = pid

contains_window(s, wid) == \E i \in 1..Len(s.windows) : s.windows[i] = wid

select_window(s, wid) ==
    IF ~contains_window(s, wid) THEN s
    ELSE with_selected_offset([s EXCEPT !.selected = wid])

swap_windows(s, a, b) ==
    LET a_idx == position(s.windows, a)
        b_idx == position(s.windows, b)
    IN  IF a_idx = NoIdx \/ b_idx = NoIdx THEN s
        ELSE [s EXCEPT
                !.windows = vec_swap(s.windows, a_idx, b_idx),
                !.widths = IF a_idx < Len(s.widths) /\ b_idx < Len(s.widths)
                           THEN vec_swap(s.widths, a_idx, b_idx)
                           ELSE s.widths,
                !.scroll_offset = IF s.selected = a THEN b_idx * 100
                                  ELSE IF s.selected = b THEN a_idx * 100
                                  ELSE s.scroll_offset]

rebalance(s) ==
    IF Len(s.windows) = 0 THEN s
    ELSE with_selected_offset(ensure_selection(
             [s EXCEPT !.widths = explicit([i \in 1..Len(s.windows) |->
                                      default_window_ratio])],
             default_window_ratio))

\* the width units map to the size of a frame one to one; ratio is the
\* quotient of the new and the old spans
on_window_resized(s, wid, old_frame, new_frame) ==
    LET idx == position(s.windows, wid)
        scrolled(s3) ==
            IF selected_index(s3) = idx
            THEN [s3 EXCEPT !.scroll_offset = idx * 100]
            ELSE s3
        clamped(s2) ==
            IF selected_index(s2) # NoIdx
            THEN scrolled([s2 EXCEPT !.scroll_offset =
                              clamp(s2.scroll_offset, 0, max_offset(s2))])
            ELSE s2
        scaled(s1) ==
            clamped(ensure_widths(
                [s1 EXCEPT !.widths[idx + 1] =
                    Max((s1.widths[idx + 1] * new_frame.size)
                            \div old_frame.size,
                        MIN_WIDTH_UNITS)],
                default_window_ratio))
    IN  IF idx = NoIdx \/ idx >= Len(s.widths) THEN s
        ELSE scaled(ensure_widths(s, default_window_ratio))

\* the index the offset of s snaps to: its integral part, or the next index
\* once the fractional part has reached the threshold
snap_target_floor(s) ==
    clamp((s.scroll_offset \div 100) * 100, 0, max_offset(s)) \div 100
snap_target(s) ==
    LET base == clamp((s.scroll_offset \div 100) * 100, 0, max_offset(s))
        frac == s.scroll_offset - base
        target_idx == base \div 100
    IN  IF frac >= snap_threshold /\ target_idx + 1 < Len(s.windows)
        THEN target_idx + 1 ELSE target_idx

\* ScrollLayoutSystem::scroll_by; the result carries the returned window
scroll_by_unclamped(s, delta) ==
    LET moved(s1) ==
            LET prev_index == IF selected_index(s1) = NoIdx THEN 0
                              ELSE selected_index(s1)
                s2 == [s1 EXCEPT !.scroll_offset = @ + delta]
                target_idx == snap_target(s2)
            IN  IF target_idx # prev_index
                THEN [state |-> [s2 EXCEPT
                                   !.selected = s2.windows[target_idx + 1],
                                   !.scroll_offset = target_idx * 100],
                      focus |-> s2.windows[target_idx + 1]]
                ELSE [state |-> s2, focus |-> None]
    IN  IF Len(s.windows) = 0
        THEN [state |-> [s EXCEPT !.selected = None, !.scroll_offset = 0],
              focus |-> None]
        ELSE moved(ensure_selection(s, default_window_ratio))
scroll_by(s, delta) ==
    LET moved(s1) ==
            LET prev_index == IF selected_index(s1) = NoIdx THEN 0
                              ELSE selected_index(s1)
                s2 == [s1 EXCEPT !.scroll_offset =
                          clamp(@ + delta, 0, max_offset(s1))]
                target_idx == snap_target(s2)
            IN  IF target_idx # prev_index
                THEN [state |-> [s2 EXCEPT
                                   !.selected = s2.windows[target_idx + 1],
                                   !.scroll_offset = target_idx * 100],
                      focus |-> s2.windows[target_idx + 1]]
                ELSE [state |-> s2, focus |-> None]
    IN  IF Len(s.windows) = 0
        THEN [state |-> [s EXCEPT !.selected = None, !.scroll_offset = 0],
              focus |-> None]
        ELSE moved(ensure_selection(s, default_window_ratio))

finalize_scroll_forward(s) ==
    LET snapped(s2) ==
            IF snap_target(s2) + 1 < Len(s2.windows)
            THEN [s2 EXCEPT !.scroll_offset = (snap_target(s2) + 1) * 100,
                            !.selected = s2.windows[snap_target(s2) + 2]]
            ELSE s2
        clamped(s1) ==
            snapped([s1 EXCEPT !.scroll_offset =
                        clamp(@, 0, max_offset(s1))])
    IN  clamped(ensure_selection(s, default_window_ratio))
finalize_scroll(s) ==
    LET snapped(s2) ==
            IF snap_target(s2) < Len(s2.windows)
            THEN [s2 EXCEPT !.scroll_offset = snap_target(s2) * 100,
                            !.selected = s2.windows[snap_target(s2) + 1]]
            ELSE s2
        clamped(s1) ==
            snapped([s1 EXCEPT !.scroll_offset =
                        clamp(@, 0, max_offset(s1))])
    IN  clamped(ensure_selection(s, default_window_ratio))

selected_window(s) == s.selected

Directions == {"Left", "Right", "Up", "Down"}

\* ScrollLayoutSystem::move_focus; the result carries the focus window (the
\* raise windows are that window, when the selection moved)
move_focus(s, direction) ==
    LET moved(s1) ==
            LET current == IF selected_index(s1) = NoIdx THEN 0
                           ELSE selected_index(s1)
                target == IF direction \in {"Left", "Up"}
                          THEN Max(current - 1, 0)
                          ELSE Min(current + 1, Len(s1.windows) - 1)
            IN  IF target = current
                THEN [state |-> s1, focus |-> s1.selected, moved |-> FALSE]
                ELSE [state |-> [s1 EXCEPT
                                   !.selected = s1.windows[target + 1],
                                   !.scroll_offset = target * 100],
                      focus |-> s1.windows[target + 1], moved |-> TRUE]
    IN  IF Len(s.windows) = 0
        THEN [state |-> [s EXCEPT !.selected = None, !.scroll_offset = 0],
              focus |-> None, moved |-> FALSE]
        ELSE moved(ensure_selection(s, default_window_ratio))

\* ScrollLayoutSystem::move_selection; the result carries the returned flag
move_selection(s, direction) ==
    LET swapped(s1) ==
            LET idx == selected_index(s1)
                len == Len(s1.windows)
                target == IF direction \in {"Left", "Up"}
                          THEN (IF idx >= 1 THEN idx - 1 ELSE NoIdx)
                          ELSE (IF idx + 1 < len THEN idx + 1 ELSE NoIdx)
            IN  IF idx = NoIdx \/ len <= 1 \/ target = NoIdx
                THEN [state |-> s1, moved |-> FALSE]
                ELSE [state |->
                        [s1 EXCEPT
                           !.windows = vec_swap(@, idx, target),
                           !.widths = IF idx < Len(@) /\ target < Len(@)
                                      THEN vec_swap(@, idx, target) ELSE @,
                           !.scroll_offset = target * 100],
                      moved |-> TRUE]
    IN  swapped(ensure_selection(s, default_window_ratio))

\* the result carries the two layouts
move_selection_to_layout_after_selection(from, to) ==
    LET taken(f1) ==
            LET idx == selected_index(f1)
                wid == f1.windows[idx + 1]
                width == IF idx < Len(f1.widths) THEN f1.widths[idx + 1]
                         ELSE default_window_ratio
                ws == vec_remove(f1.windows, idx)
                f2 == [f1 EXCEPT
                         !.windows = ws,
                         !.widths = IF idx < Len(@) THEN vec_remove(@, idx)
                                    ELSE @]
                new_idx == Min(idx, Len(ws) - 1)
                f3 == IF Len(ws) = 0
                      THEN [f2 EXCEPT !.selected = None, !.scroll_offset = 0]
                      ELSE [f2 EXCEPT !.selected = ws[new_idx + 1],
                                      !.scroll_offset = new_idx * 100]
                insert_idx == IF selected_index(to) # NoIdx
                              THEN selected_index(to) + 1
                              ELSE Len(to.windows)
                t1 == ensure_widths(
                          [to EXCEPT
                             !.windows = vec_insert(@, insert_idx, wid),
                             !.widths = vec_insert(@, insert_idx,
                                            Max(width, MIN_WIDTH_UNITS)),
                             !.selected = wid],
                          default_window_ratio)
            IN  [from |-> ensure_widths(f3, default_window_ratio),
                 to |-> with_selected_offset(t1)]
        checked(f1) ==
            IF selected_index(f1) = NoIdx THEN [from |-> f1, to |-> to]
            ELSE taken(f1)
    IN  checked(ensure_selection(from, default_window_ratio))

toggle(direction) ==
    IF direction = "Forward" THEN "Reverse" ELSE "Forward"

toggle_tile_orientation(s) ==
    [s EXCEPT !.direction = toggle(@),
              !.scroll_offset = IF selected_index(s) # NoIdx
                                THEN selected_index(s) * 100
                                ELSE clamp(@, 0, max_offset(s))]

resize_selection_by_unclamped(s, amount) ==
    LET resized(s1) ==
            IF selected_index(s1) = NoIdx THEN s1
            ELSE [s1 EXCEPT !.widths[selected_index(s1) + 1] = @ + amount,
                            !.scroll_offset = clamp(@, 0, max_offset(s1))]
    IN  IF amount = 0 \/ Len(s.windows) = 0 THEN s
        ELSE resized(ensure_selection(s, default_window_ratio))
resize_selection_by(s, amount) ==
    LET resized(s1) ==
            IF selected_index(s1) = NoIdx THEN s1
            ELSE LET s2 == ensure_widths(
                               [s1 EXCEPT !.widths[selected_index(s1) + 1] =
                                   Max(@ + amount, MIN_WIDTH_UNITS)],
                               default_window_ratio)
                 IN  [s2 EXCEPT !.scroll_offset =
                         clamp(@, 0, max_offset(s2))]
    IN  IF amount = 0 \/ Len(s.windows) = 0 THEN s
        ELSE resized(ensure_selection(s, default_window_ratio))

\* last 0-based index of wid: a later entry of the strip overrides an
\* earlier one when the positions are collected in a map
last_position(seq, x) ==
    IF \E i \in 1..Len(seq) : seq[i] = x
    THEN (CHOOSE i \in 1..Len(seq) :
              seq[i] = x /\ \A j \in (i + 1)..Len(seq) : seq[j] # x) - 1
    ELSE NoIdx

\* ScrollLayoutSystem::calculate_layout on screen scr: the window at strip
\* index i gets strip position i + 1, counted from the other end when the
\* direction is reverse, and its width units as size
calculate_layout(s, scr) ==
    explicit([w \in {s.windows[i] : i \in 1..Len(s.windows)} |->
        [scr |-> scr,
         pos |-> IF s.direction = "Reverse"
                 THEN Len(s.windows) - last_position(s.windows, w)
                 ELSE last_position(s.windows, w) + 1,
         size |-> Max(s.widths[last_position(s.windows, w) + 1],
                      MIN_WIDTH_UNITS)]])

\* ------------------------------------------------------------------------
\* Layout engine (engine.rs).  r is the record of the reactor's fields;
\* the engine's fields are layouts, exposed, vwm_active,
\* window_to_workspace, floating and focused_window.
\* ------------------------------------------------------------------------
\* VirtualWorkspaceManager::list_workspaces: creates the workspaces of a
\* space on first use, the first one active
list_workspaces(r, space) ==
    IF r.vwm_active[space] = None THEN [r EXCEPT !.vwm_active[space] = 1]
    ELSE r

\* WorkspaceLayouts::ensure_active_for_space
ensure_active_for_space(r, space) ==
    [r EXCEPT !.exposed = @ \cup {space}]

engine_layout(r, space) ==
    ensure_active_for_space(list_workspaces(r, space), space)

workspace_for_window(r, space, wid) == r.window_to_workspace[space][wid]

\* if no rule matches, a window is assigned to the active workspace
auto_assign_window(r, wid, space) ==
    LET r1 == list_workspaces(r, space)
    IN  [r1 EXCEPT !.window_to_workspace[space][wid] = r1.vwm_active[space]]

\* an existing assignment on the space is kept
assign_window_with_app_info(r, wid, space) ==
    LET r1 == list_workspaces(r, space)
    IN  IF workspace_for_window(r1, space, wid) # None THEN r1
        ELSE auto_assign_window(r1, wid, space)

assign_window_to_workspace(r, space, wid, ws) ==
    [r EXCEPT !.window_to_workspace[space][wid] = ws]

rebalance_all_layouts(r) ==
    [r EXCEPT !.layouts = explicit([sp \in Spaces |-> explicit([ws \in Workspaces |->
                              rebalance(r.layouts[sp][ws])])])]

engine_SpaceExposed(r, space) == engine_layout(r, space)

engine_WindowAdded(r, space, wid) ==
    LET r1 == auto_assign_window(r, wid, space)
        assigned == workspace_for_window(r1, space, wid)
    IN  IF wid \notin r1.floating /\ space \in r1.exposed
        THEN [r1 EXCEPT !.layouts[space][assigned] =
                 add_window_after_selection(@, wid)]
        ELSE r1

engine_WindowRemoved(r, wid) ==
    rebalance_all_layouts(
        [r EXCEPT !.layouts = explicit([sp \in Spaces |-> explicit([ws \in Workspaces |->
                                  sys_remove_window(r.layouts[sp][ws], wid)])]),
                  !.floating = @ \ {wid},
                  !.floating_last_focus = IF @ = wid THEN None ELSE @,
                  !.window_to_workspace =
                      explicit([sp \in Spaces |-> [r.window_to_workspace[sp]
                                             EXCEPT ![wid] = None]]),
                  !.last_focused =
                      explicit([sp \in Spaces |-> explicit([ws \in Workspaces |->
                          IF r.last_focused[sp][ws] = wid THEN None
                          ELSE r.last_focused[sp][ws]])]),
                  !.focused_window = IF @ = wid THEN None ELSE @])

engine_WindowFocused(r, space, wid) ==
    LET r1 == [r EXCEPT !.focused_window = wid]
    IN  IF wid \in r1.floating
        THEN [r1 EXCEPT !.floating_last_focus = wid]
        ELSE LET r2 == engine_layout(r1, space)
             IN  [r2 EXCEPT !.layouts[space][r2.vwm_active[space]] =
                     select_window(@, wid),
                            !.last_focused[space][r2.vwm_active[space]] =
                     wid]

\* screens is the sequence of the spaces of the screens that have one
RECURSIVE engine_WindowResized(_, _, _, _, _)
engine_WindowResized(r, wid, old_frame, new_frame, spaces) ==
    IF Len(spaces) = 0 THEN r
    ELSE LET r1 == engine_layout(r, Head(spaces))
             r2 == [r1 EXCEPT
                      !.layouts[Head(spaces)][r1.vwm_active[Head(spaces)]] =
                          on_window_resized(@, wid, old_frame, new_frame)]
         IN  engine_WindowResized(r2, wid, old_frame, new_frame,
                                  Tail(spaces))

\* the elements of seq that are in S, in the order of seq
RECURSIVE seq_filter(_, _)
seq_filter(seq, S) ==
    IF Len(seq) = 0 THEN << >>
    ELSE IF Head(seq) \in S THEN <<Head(seq)>> \o seq_filter(Tail(seq), S)
    ELSE seq_filter(Tail(seq), S)

RECURSIVE assign_all(_, _, _)
assign_all(r, wins, space) ==
    IF Len(wins) = 0 THEN r
    ELSE assign_all(assign_window_with_app_info(r, Head(wins), space),
                    Tail(wins), space)

RECURSIVE set_windows_for_workspaces(_, _, _, _, _, _)
set_windows_for_workspaces(r, space, pid, tiled, total, todo) ==
    IF todo = {} THEN r
    ELSE LET ws == CHOOSE x \in todo : \A y \in todo : x <= y
             desired == seq_filter(tiled,
                            {w \in WindowIds :
                                workspace_for_window(r, space, w) = ws})
             r1 == IF /\ Len(desired) = 0 /\ total = 0
                      /\ has_windows_for_app(r.layouts[space][ws], pid)
                   THEN r
                   ELSE [r EXCEPT !.layouts[space][ws] =
                            set_windows_for_app(@, pid, desired)]
         IN  set_windows_for_workspaces(r1, space, pid, tiled, total,
                                        todo \ {ws})

engine_WindowsOnScreenUpdated(r, space, pid, wins) ==
    LET tiled == seq_filter(wins, WindowIds \ r.floating)
        r1 == assign_all(r, tiled, space)
        r2 == set_windows_for_workspaces(r1, space, pid, tiled, Len(tiled),
                  IF space \in r1.exposed THEN Workspaces ELSE {})
    IN  rebalance_all_layouts(r2)

engine_SwapWindows(r, space, a, b) ==
    IF space = None THEN r
    ELSE LET r1 == engine_layout(r, space)
         IN  [r1 EXCEPT !.layouts[space][r1.vwm_active[space]] =
                 swap_windows(@, a, b)]

\* EventResponse::default
NoResponse == [focus_window |-> None, raise_windows |-> << >>]

is_window_in_active_workspace(r, space, wid) ==
    \/ r.vwm_active[space] = None
    \/ workspace_for_window(r, space, wid) = None
    \/ workspace_for_window(r, space, wid) = r.vwm_active[space]

\* ---- virtual workspace manager: focus memory and switching ----
\* the id of the workspace at an index of list_workspaces
workspace_at(index) == IF index + 1 \in Workspaces THEN index + 1 ELSE None

set_active_workspace(r, space, ws) == [r EXCEPT !.vwm_active[space] = ws]

set_last_focused_window(r, space, ws, wid) ==
    [r EXCEPT !.last_focused[space][ws] = wid]

\* the windows assigned to the active workspace of space, in the order ord
windows_in_active_workspace(r, space, ord) ==
    seq_filter(ord, {w \in WindowIds :
                        /\ r.vwm_active[space] # None
                        /\ workspace_for_window(r, space, w)
                               = r.vwm_active[space]})

\* FloatingManager::active_flat: the floating windows of a space, by id
RECURSIVE ascending_seq(_)
ascending_seq(S) ==
    IF S = {} THEN << >>
    ELSE LET x == CHOOSE y \in S : \A z \in S : y <= z
         IN  <<x>> \o ascending_seq(S \ {x})

active_floating_windows_flat(r, space) ==
    ascending_seq({w \in r.floating :
                      workspace_for_window(r, space, w) # None})

active_floating_windows_in_workspace(r, space) ==
    seq_filter(active_floating_windows_flat(r, space),
               {w \in WindowIds :
                   is_window_in_active_workspace(r, space, w)})

\* the result of a command: the engine after it and its response
refocus_workspace(reactor, space, workspace_id) ==
    value({
        LET layout == r.layouts[space][workspace_id]
            from_layout ==
                IF space \notin r.exposed THEN None
                ELSE IF selected_window(layout) # None
                THEN selected_window(layout)
                ELSE IF Len(layout.windows) > 0 THEN layout.windows[1]
                ELSE None
            floating_windows == active_floating_windows_in_workspace(r, space)
            from_floating ==
                IF \E i \in 1..Len(floating_windows) :
                       floating_windows[i] = r.floating_last_focus
                THEN r.floating_last_focus
                ELSE IF Len(floating_windows) > 0 THEN floating_windows[1]
                ELSE None
            focus_window ==
                IF r.last_focused[space][workspace_id] # None
                THEN r.last_focused[space][workspace_id]
                ELSE IF from_layout # None THEN from_layout
                ELSE from_floating
            r1 == set_last_focused_window(
                      [r EXCEPT !.focused_window = focus_window],
                      space, workspace_id, focus_window)
            r2 == IF focus_window = None THEN r1
                  ELSE IF focus_window \in r1.floating
                  THEN [r1 EXCEPT !.floating_last_focus = focus_window]
                  ELSE IF space \in r1.exposed
                  THEN [r1 EXCEPT !.layouts[space][workspace_id] =
                           select_window(@, focus_window)]
                  ELSE r1
        IN  [r |-> r2,
             response |-> [focus_window |-> focus_window,
                           raise_windows |-> << >>]]
        : r \in {reactor}})

engine_SwitchToWorkspace(reactor, space, workspace_index) ==
    value({
        LET r1 == list_workspaces(r, space)
            workspace_id == workspace_at(workspace_index)
        IN  IF workspace_id = None \/ r1.vwm_active[space] = workspace_id
            THEN [r |-> r1, response |-> NoResponse]
            ELSE refocus_workspace(
                     set_active_workspace(r1, space, workspace_id),
                     space, workspace_id)
        : r \in {reactor}})

\* the first space whose active layout or floating windows hold wid
space_with_window(r, wid) ==
    LET holding ==
            {sp \in r.exposed :
                \/ /\ r.vwm_active[sp] # None
                   /\ contains_window(r.layouts[sp][r.vwm_active[sp]], wid)
                \/ wid \in r.floating
                   /\ workspace_for_window(r, sp, wid) # None}
    IN  IF holding = {} THEN None
        ELSE CHOOSE sp \in holding : \A x \in holding : sp <= x

\* every layout that has the window loses it (tree.remove_window)
tree_remove_window(r, wid) ==
    [r EXCEPT !.layouts = explicit([sp \in Spaces |->
                  explicit([ws \in Workspaces |->
                      sys_remove_window(r.layouts[sp][ws], wid)])])]

engine_MoveWindowToWorkspace(reactor, space, workspace_index, ord) ==
    value({
        LET focused == r.focused_window
            inferred_space == space_with_window(r, focused)
            op_space == IF inferred_space = None THEN space ELSE inferred_space
            r1 == list_workspaces(r, op_space)
            target == workspace_at(workspace_index)
            current == workspace_for_window(r1, op_space, focused)
            is_floating == focused \in r1.floating
            r2 == IF ~is_floating /\ op_space \in r1.exposed
                  THEN tree_remove_window(r1, focused) ELSE r1
            r3 == assign_window_to_workspace(r2, op_space, focused, target)
            r4 == IF ~is_floating /\ op_space \in r3.exposed
                  THEN [r3 EXCEPT !.layouts[op_space][target] =
                           add_window_after_selection(@, focused)]
                  ELSE r3
            active_workspace == r4.vwm_active[op_space]
            r5 == set_last_focused_window(
                      [r4 EXCEPT !.focused_window = None],
                      op_space, current, None)
            remaining == windows_in_active_workspace(r5, op_space, ord)
        IN  IF focused = None THEN [r |-> r, response |-> NoResponse]
            ELSE IF target = None \/ current = None \/ current = target
            THEN [r |-> r1, response |-> NoResponse]
            ELSE IF target = active_workspace
            THEN [r |-> r4,
                  response |-> [focus_window |-> focused,
                                raise_windows |-> << >>]]
            ELSE IF current = active_workspace /\ Len(remaining) > 0
            THEN [r |-> r5,
                  response |-> [focus_window |-> remaining[1],
                                raise_windows |-> << >>]]
            ELSE [r |-> set_last_focused_window(
                            IF current = active_workspace THEN r5 ELSE r4,
                            op_space, target, focused),
                  response |-> NoResponse]
        : r \in {reactor}})

\* ---- LayoutEngine::handle_command ----
Command(type, arg, finalize) ==
    [type |-> type, arg |-> arg, finalize |-> finalize]

engine_ToggleWindowFloating(reactor, space) ==
    value({
        LET wid == r.focused_window
            r0 == IF space # None THEN engine_layout(r, space) ELSE r
            assigned_workspace ==
                IF workspace_for_window(r0, space, wid) # None
                THEN workspace_for_window(r0, space, wid)
                ELSE r0.vwm_active[space]
            tiled == IF space # None /\ space \in r0.exposed
                     THEN [r0 EXCEPT !.layouts[space][assigned_workspace] =
                              add_window_after_selection(@, wid)]
                     ELSE r0
        IN  IF wid = None THEN r0
            ELSE IF wid \in r0.floating
            THEN [tiled EXCEPT !.floating = @ \ {wid},
                               !.floating_last_focus = None]
            ELSE [tree_remove_window(r0, wid) EXCEPT
                     !.floating = @ \cup {wid},
                     !.floating_last_focus = wid]
        : r \in {reactor}})

\* the space after or before space among the visible ones, none when there
\* is a single one
next_space(visible_spaces, space, direction) ==
    LET n == Len(visible_spaces)
        idx == position(visible_spaces, space)
        step == IF direction \in {"Left", "Up"} THEN idx - 1 ELSE idx + 1
    IN  IF n <= 1 \/ idx = NoIdx THEN None
        ELSE visible_spaces[((step + n) % n) + 1]

move_focus_internal(reactor, space, visible_spaces, direction, is_floating) ==
    value({
        LET r0 == engine_layout(r, space)
            active == r0.vwm_active[space]
            floating_windows == active_floating_windows_flat(r0, space)
            tiled_windows == r0.layouts[space][active].windows
            current_idx == position(floating_windows, r0.focused_window)
            n == Len(floating_windows)
            next_idx == IF direction = "Left"
                        THEN (IF current_idx = 0 THEN n - 1 ELSE current_idx - 1)
                        ELSE (current_idx + 1) % n
            res == move_focus(r0.layouts[space][active], direction)
            new_space == next_space(visible_spaces, space, direction)
            other(r1) ==
                LET r2 == engine_layout(r1, new_space)
                    new_windows ==
                        r2.layouts[new_space][r2.vwm_active[new_space]].windows
                IN  IF Len(new_windows) = 0 THEN [r |-> r2, found |-> FALSE]
                    ELSE [r |-> [r2 EXCEPT
                                   !.layouts[new_space][r2.vwm_active[new_space]]
                                       = select_window(@, new_windows[1])],
                          found |-> TRUE,
                          response |-> [focus_window |-> new_windows[1],
                                        raise_windows |-> new_windows]]
            tiled(r1) ==
                IF res.focus # None
                THEN [r |-> r1,
                      response |-> [focus_window |-> res.focus,
                                    raise_windows |-> IF res.moved
                                                      THEN <<res.focus>>
                                                      ELSE << >>]]
                ELSE IF new_space # None /\ other(r1).found
                THEN [r |-> other(r1).r, response |-> other(r1).response]
                ELSE [r |-> IF new_space # None THEN other(r1).r ELSE r1,
                      response |-> IF Len(floating_windows) > 0
                                   THEN [focus_window |-> floating_windows[1],
                                         raise_windows |-> << >>]
                                   ELSE NoResponse]
        IN  IF is_floating
            THEN IF /\ direction \in {"Left", "Right"}
                    /\ n > 1 /\ current_idx # NoIdx
                 THEN [r |-> r0,
                       response |-> [focus_window |->
                                         floating_windows[next_idx + 1],
                                     raise_windows |-> << >>]]
                 ELSE IF Len(tiled_windows) > 0
                 THEN [r |-> [r0 EXCEPT !.layouts[space][active] =
                                 select_window(@, tiled_windows[1])],
                       response |-> [focus_window |-> tiled_windows[1],
                                     raise_windows |-> tiled_windows]]
                 ELSE [r |-> r0, response |-> NoResponse]
            ELSE tiled([r0 EXCEPT !.layouts[space][active] = res.state])
        : r \in {reactor}})

engine_ScrollWorkspace(reactor, space, delta, finalize) ==
    value({
        LET workspace_id == r.vwm_active[space]
            s0 == r.layouts[space][workspace_id]
            scrolled == IF delta # 0 THEN scroll_by(s0, delta)
                        ELSE [state |-> s0, focus |-> None]
            s1 == IF finalize THEN finalize_scroll(scrolled.state)
                  ELSE scrolled.state
            focus_window == IF scrolled.focus # None THEN scrolled.focus
                            ELSE IF finalize THEN selected_window(s1)
                            ELSE None
            r1 == [r EXCEPT !.layouts[space][workspace_id] = s1]
        IN  IF focus_window = None THEN [r |-> r1, response |-> NoResponse]
            ELSE [r |-> set_last_focused_window(
                            [r1 EXCEPT !.focused_window = focus_window],
                            space, workspace_id, focus_window),
                  response |-> [focus_window |-> focus_window,
                                raise_windows |-> <<focus_window>>]]
        : r \in {reactor}})

engine_MoveNode(reactor, space, visible_spaces, direction) ==
    value({
        LET workspace_id == r.vwm_active[space]
            res == move_selection(r.layouts[space][workspace_id], direction)
            r1 == [r EXCEPT !.layouts[space][workspace_id] = res.state]
            new_space == next_space(visible_spaces, space, direction)
            across(r2) ==
                LET new_ws == r2.vwm_active[new_space]
                    both == move_selection_to_layout_after_selection(
                                r2.layouts[space][workspace_id],
                                r2.layouts[new_space][new_ws])
                IN  [r2 EXCEPT !.layouts =
                        [[@ EXCEPT ![space][workspace_id] = both.from]
                            EXCEPT ![new_space][new_ws] = both.to]]
        IN  IF res.moved \/ new_space = None THEN r1
            ELSE across(engine_layout(r1, new_space))
        : r \in {reactor}})

handle_command(reactor, space, visible_spaces, command) ==
    value({
        LET is_floating == /\ r.focused_window # None
                           /\ r.focused_window \in r.floating
            r0 == IF space # None THEN engine_layout(r, space) ELSE r
            workspace_id == r0.vwm_active[space]
            quiet(r1) == [r |-> r1, response |-> NoResponse]
            resized(amount) ==
                IF is_floating THEN r0
                ELSE [r0 EXCEPT !.layouts[space][workspace_id] =
                         resize_selection_by(@, amount)]
        IN  IF command.type = "ToggleWindowFloating"
            THEN quiet(engine_ToggleWindowFloating(r, space))
            ELSE IF space = None \/ space \notin r0.exposed THEN quiet(r0)
            ELSE IF command.type = "ScrollWorkspace"
            THEN engine_ScrollWorkspace(r0, space, command.arg, command.finalize)
            ELSE IF command.type = "MoveFocus"
            THEN move_focus_internal(r0, space, visible_spaces, command.arg,
                                     is_floating)
            ELSE IF command.type = "MoveNode"
            THEN quiet(engine_MoveNode(r0, space, visible_spaces, command.arg))
            ELSE IF command.type = "ToggleTileOrientation"
            THEN quiet([r0 EXCEPT !.layouts[space][workspace_id] =
                           toggle_tile_orientation(@)])
            ELSE IF command.type = "ResizeWindowGrow" THEN quiet(resized(5))
            ELSE IF command.type = "ResizeWindowShrink" THEN quiet(resized(-5))
            ELSE quiet(r0)
        : r \in {reactor}})

handle_virtual_workspace_command(reactor, space, command, ord) ==
    value({
        IF command.type = "SwitchToWorkspace"
        THEN engine_SwitchToWorkspace(r, space, command.arg)
        ELSE IF command.type = "MoveWindowToWorkspace"
        THEN engine_MoveWindowToWorkspace(r, space, command.arg, ord)
        ELSE [r |-> r, response |-> NoResponse]
        : r \in {reactor}})

windows_in_inactive_workspaces(r, space) ==
    IF r.vwm_active[space] = None THEN {}
    ELSE {w \in WindowIds :
            workspace_for_window(r, space, w) \notin
                {None, r.vwm_active[space]}}

\* the positions map: tiled positions of the active workspace's layout,
\* overridden by the hidden corner for the windows of inactive workspaces
calculate_layout_with_virtual_workspaces(r, space, scr) ==
    LET active == r.vwm_active[space]
        tiled == IF active # None /\ space \in r.exposed
                 THEN calculate_layout(r.layouts[space][active], scr)
                 ELSE << >>
        hidden == windows_in_inactive_workspaces(r, space)
    IN  explicit([w \in (DOMAIN tiled) \cup hidden |->
            IF w \in hidden
            THEN [scr |-> scr, pos |-> 0,
                  size |-> IF w \in DOMAIN r.windows
                           THEN r.windows[w].frame_monotonic.size
                           ELSE default_window_ratio]
            ELSE tiled[w]])

\* ------------------------------------------------------------------------
\* Reactor (reactor.rs)
\* ------------------------------------------------------------------------
map_insert(f, k, v) ==
    explicit([x \in (DOMAIN f) \cup {k} |-> IF x = k THEN v ELSE f[x]])
map_remove(f, k) == explicit([x \in (DOMAIN f) \ {k} |-> f[x]])

\* impl From<WindowInfo> for WindowState
WindowState_from(info) ==
    [frame_monotonic |-> info.frame,
     is_ax_standard |-> info.is_standard,
     is_ax_root |-> info.is_root,
     is_minimized |-> info.is_minimized,
     is_manageable |-> FALSE,
     last_sent_txid |-> 0]

next_txid(r, wid) == [r EXCEPT !.windows[wid].last_sent_txid = @ + 1]

store_txid(r, wsid, txid, target) ==
    [r EXCEPT !.window_tx_store =
        map_insert(@, wsid, [txid |-> txid, target |-> target])]

remove_txid_for_window(r, wsid) ==
    [r EXCEPT !.window_tx_store = map_remove(@, wsid)]

\* the window server's sticky flag and level are taken as normal
compute_manageability_from_parts(r, wsid, is_minimized, is_ax_standard, is_ax_root) ==
    /\ ~is_minimized
    /\ wsid \in DOMAIN r.window_server_info
           => r.window_server_info[wsid].layer = 0
    /\ is_ax_standard
    /\ is_ax_root

compute_window_manageability(r, wid, w) ==
    compute_manageability_from_parts(r, wid, w.is_minimized,
                                     w.is_ax_standard, w.is_ax_root)

window_is_standard(r, wid) ==
    wid \in DOMAIN r.windows /\ r.windows[wid].is_manageable

\* the screen whose rectangle holds the centre decides; a frame outside
\* every screen falls to the last screen of the maximal (empty) overlap
best_space_for_window(r, frame) ==
    IF Len(r.screens) = 0 THEN None
    ELSE IF frame.scr <= Len(r.screens) THEN r.screens[frame.scr]
    ELSE r.screens[Len(r.screens)]

\* ghost: the frame writes sent to a window so far: the id and the target
\* of the last one and the ids known to the application before it (0 before
\* the first write)
NoFrame == [scr |-> 0, pos |-> 0, size |-> 0]
NoWrites == [last |-> 0, older |-> {}, target |-> NoFrame, any |-> FALSE]

\* ghost: a stashed snapshot entry becomes older than the last write of
\* its window when a write to that window is sent
age_snapshot(ws_info, W) ==
    explicit([w \in DOMAIN ws_info |->
        IF w \in W THEN [ws_info[w] EXCEPT !.stale = TRUE] ELSE ws_info[w]])

write_sent(r, wid, txid, target) ==
    [r EXCEPT !.sent[wid] = [last |-> txid,
                             older |-> IF @.any THEN @.older \cup {@.last}
                                       ELSE {},
                             target |-> target,
                             any |-> TRUE],
              !.pending_space_change.ws_info = age_snapshot(@, {wid})]

\* per-event log: the layout events and commands sent to the engine, the
\* layout passes run, the windows whose frame_monotonic was assigned from
\* feedback older than their last write, the raise requests, the windows
\* given to an animation and the requests sent to the window_notify actor
NoOutput ==
    [events |-> << >>, swaps |-> << >>, passes |-> 0, stale |-> {},
     raises |-> << >>, animated |-> << >>, notify |-> << >>]

log_event(r, e) == [r EXCEPT !.out.events = Append(@, e)]

\* the spaces of the screens that have one, in screen order
RECURSIVE screen_spaces(_)
screen_spaces(screens) ==
    IF Len(screens) = 0 THEN << >>
    ELSE IF Head(screens) = None THEN screen_spaces(Tail(screens))
    ELSE <<Head(screens)>> \o screen_spaces(Tail(screens))

first_screen_space(r) ==
    IF Len(screen_spaces(r.screens)) = 0 THEN None
    ELSE screen_spaces(r.screens)[1]

\* the window server's window under the cursor is a window of an
\* application the reactor does not track
Untracked == -2

window_id_under_cursor(r) ==
    IF r.window_under_cursor \in r.window_ids THEN r.window_under_cursor
    ELSE None

\* make_key_window succeeds for an untracked window
focus_untracked_window_under_cursor(r) == r.window_under_cursor = Untracked

last_focused_window_in_space(r, space) ==
    LET active_workspace == r.vwm_active[space]
        wid == IF active_workspace = None THEN None
               ELSE r.last_focused[space][active_workspace]
    IN  IF wid = None \/ wid \notin DOMAIN r.windows THEN None
        ELSE IF best_space_for_window(r, r.windows[wid].frame_monotonic)
                    # space
        THEN None
        ELSE IF wid \in r.changing_screens \/ wid \notin r.visible_windows
        THEN None
        ELSE wid

request_refocus_if_hidden(r, space, window_id) ==
    IF /\ r.vwm_active[space] # None
       /\ workspace_for_window(r, space, window_id) # None
       /\ workspace_for_window(r, space, window_id) # r.vwm_active[space]
    THEN [r EXCEPT !.pending_refocus_space = space]
    ELSE r

\* prepare_refocus_after_layout_event for WindowsOnScreenUpdated
prepare_refocus_after_layout_event(r, space, wins) ==
    IF /\ r.vwm_active[space] # None
       /\ \E i \in 1..Len(wins) :
              workspace_for_window(r, space, wins[i])
                  \notin {None, r.vwm_active[space]}
    THEN [r EXCEPT !.pending_refocus_space = space]
    ELSE r

\* the focus window that is left of a request: a known window must be
\* visible, not changing screens and on the space of the first screen
focus_after_checks(r, wid) ==
    IF wid = None \/ wid \notin DOMAIN r.windows THEN wid
    ELSE IF wid \in r.changing_screens \/ wid \notin r.visible_windows
    THEN None
    ELSE IF best_space_for_window(r, r.windows[wid].frame_monotonic) = None
    THEN None
    ELSE IF /\ first_screen_space(r) # None
            /\ best_space_for_window(r, r.windows[wid].frame_monotonic)
                   # first_screen_space(r)
    THEN None
    ELSE wid

handle_layout_response(reactor, response) ==
    value({
        LET pending == r.pending_refocus_space
            empty == /\ response.raise_windows = << >>
                     /\ response.focus_window = None
            by_switch == empty /\ r.is_workspace_switch
            by_refocus == empty /\ ~r.is_workspace_switch /\ pending # None
            last == IF by_refocus THEN last_focused_window_in_space(r, pending)
                    ELSE None
            by_cursor == by_switch \/ (by_refocus /\ last = None)
            focus_window ==
                IF by_refocus /\ last # None THEN last
                ELSE IF by_cursor THEN window_id_under_cursor(r)
                ELSE response.focus_window
            handled_without_raise ==
                /\ by_cursor
                /\ window_id_under_cursor(r) = None
                /\ focus_untracked_window_under_cursor(r)
            checked == focus_after_checks(r, focus_window)
            nothing == response.raise_windows = << >> /\ checked = None
            r1 == [r EXCEPT !.pending_refocus_space = None]
            r2 == [r EXCEPT !.pending_refocus_space =
                      IF by_refocus THEN None ELSE pending]
        IN  IF r.in_drag THEN [r EXCEPT !.is_workspace_switch = FALSE]
            ELSE IF handled_without_raise /\ nothing
            THEN [r1 EXCEPT !.is_workspace_switch = FALSE]
            ELSE IF nothing /\ ~r.is_workspace_switch THEN r2
            ELSE [r2 EXCEPT !.out.raises =
                     Append(@, [raise_windows |-> response.raise_windows,
                                focus_window |-> checked])]
        : r \in {reactor}})

send_WindowAdded(r, space, wid) ==
    handle_layout_response(
        request_refocus_if_hidden(
            log_event(engine_WindowAdded(r, space, wid),
                      <<"WindowAdded", space, wid>>),
            space, wid),
        NoResponse)

send_WindowRemoved(r, wid) ==
    handle_layout_response(
        log_event(engine_WindowRemoved(r, wid), <<"WindowRemoved", wid, 0>>),
        NoResponse)

send_SpaceExposed(r, space) ==
    handle_layout_response(
        log_event(engine_SpaceExposed(r, space), <<"SpaceExposed", space, 0>>),
        NoResponse)

send_WindowsOnScreenUpdated(r, space, pid, wins) ==
    handle_layout_response(
        prepare_refocus_after_layout_event(
            log_event(engine_WindowsOnScreenUpdated(r, space, pid, wins),
                      <<"WindowsOnScreenUpdated", space, pid>>),
            space, wins),
        NoResponse)

send_WindowResized(r, wid, old_frame, new_frame) ==
    handle_layout_response(
        log_event(engine_WindowResized(r, wid, old_frame, new_frame,
                                       screen_spaces(r.screens)),
                  <<"WindowResized", wid, 0>>),
        NoResponse)

is_scroll_layout(r) == r.config_mode = "scroll"

\* the batched path of update_layout for the frames of one application on
\* one screen; frames is the Vec of the windows of pid in iteration order
batch_for_app(r, frames, layout, pid, o) ==
    IF Len(frames) = 0 \/ pid \notin r.apps THEN r
    ELSE
    LET first_wid == frames[1]
        r1 == next_txid(r, first_wid)
        txid == r1.windows[first_wid].last_sent_txid
        members == {frames[i] : i \in 1..Len(frames)}
        r2 == [r1 EXCEPT
                 !.windows = explicit([w \in DOMAIN r1.windows |->
                     IF w \in members
                     THEN [r1.windows[w] EXCEPT !.last_sent_txid = txid]
                     ELSE r1.windows[w]]),
                 !.window_tx_store =
                     explicit([w \in (DOMAIN r1.window_tx_store) \cup members |->
                         IF w \in members
                         THEN [txid |-> txid, target |-> layout[w]]
                         ELSE r1.window_tx_store[w]])]
    IN  IF o.send_err = pid THEN r2
        ELSE [r2 EXCEPT
                !.windows = explicit([w \in DOMAIN r2.windows |->
                    IF w \in members
                    THEN [r2.windows[w] EXCEPT !.frame_monotonic = layout[w]]
                    ELSE r2.windows[w]]),
                !.sent = explicit([w \in WindowIds |->
                    IF w \in members
                    THEN [last |-> txid,
                          older |-> IF r2.sent[w].any
                                    THEN r2.sent[w].older
                                             \cup {r2.sent[w].last}
                                    ELSE {},
                          target |-> layout[w], any |-> TRUE]
                    ELSE r2.sent[w]]),
                !.pending_space_change.ws_info = age_snapshot(@, members)]

RECURSIVE batch_for_apps(_, _, _, _, _)
batch_for_apps(r, layout, skip_wid, o, todo) ==
    IF todo = {} THEN r
    ELSE LET pid == CHOOSE x \in todo : \A y \in todo : x <= y
             frames == seq_filter(o.ord,
                 {w \in DOMAIN layout :
                     /\ PidOf(w) = pid
                     /\ w # skip_wid
                     /\ w \in DOMAIN r.windows
                     /\ (is_scroll_layout(r)
                         \/ layout[w] # r.windows[w].frame_monotonic)})
         IN  batch_for_apps(batch_for_app(r, frames, layout, pid, o),
                            layout, skip_wid, o, todo \ {pid})

\* the animated path of update_layout for one window
animate_window(r, wid, target, space, active_ws, skip_wid, o) ==
    IF \/ wid = skip_wid
       \/ wid \notin DOMAIN r.windows
       \/ target = r.windows[wid].frame_monotonic
    THEN r
    ELSE
    LET r1 == next_txid(r, wid)
        txid == r1.windows[wid].last_sent_txid
        is_active == workspace_for_window(r1, space, wid) = active_ws
        r2 == store_txid(r1, wid, txid, target)
    IN  IF PidOf(wid) \notin r1.apps THEN r1
        ELSE IF ~is_active /\ o.send_err = PidOf(wid) THEN r2
        ELSE write_sent([r2 EXCEPT !.windows[wid].frame_monotonic = target],
                        wid, txid, target)

RECURSIVE animate_windows(_, _, _, _, _, _, _)
animate_windows(r, layout, space, active_ws, skip_wid, o, todo) ==
    IF todo = {} THEN r
    ELSE LET wid == CHOOSE x \in todo : \A y \in todo : x <= y
         IN  animate_windows(
                 animate_window(r, wid, layout[wid], space, active_ws,
                                skip_wid, o),
                 layout, space, active_ws, skip_wid, o, todo \ {wid})

\* WindowId::idx, the per-app window index: windows 1 and 2 are the first
\* and second window of their application, window 3 the first of its own
WindowId_idx(wid) == IF wid = 3 THEN 1 ELSE wid

\* the windows that the animated path adds to the animation
animated_wids(r, layout, space, active_ws, skip_wid) ==
    ascending_seq({wid \in DOMAIN layout :
        /\ wid # skip_wid
        /\ wid \in DOMAIN r.windows
        /\ layout[wid] # r.windows[wid].frame_monotonic
        /\ PidOf(wid) \in r.apps
        /\ workspace_for_window(r, space, wid) = active_ws})

\* the ids pushed for the animated windows
animated_wids_wsids(wids) == [i \in DOMAIN wids |-> WindowId_idx(wids[i])]

\* one request for WindowMoved and one for WindowResized per id
window_notify_requests(request, ids) ==
    [i \in 1..(2 * Len(ids)) |->
        <<request, IF i % 2 = 1 THEN "WindowMoved" ELSE "WindowResized",
          ids[(i + 1) \div 2]>>]

\* the end of the animated path, with the animation between the requests
run_animation(r, wids) ==
    IF Len(wids) = 0 THEN r
    ELSE [r EXCEPT
            !.out.animated = @ \o wids,
            !.out.notify =
                @ \o window_notify_requests("IgnoreWindowEvent",
                                            animated_wids_wsids(wids))
                  \o <<<<"run", "", 0>>>>
                  \o window_notify_requests("UnignoreWindowEvent",
                                            animated_wids_wsids(wids))]

\* the body of the loop of update_layout for screen number scr
layout_screen(r, scr, skip_wid, is_workspace_switch, o) ==
    LET space == r.screens[scr]
        layout == calculate_layout_with_virtual_workspaces(r, space, scr)
        suppress_animation == \/ is_workspace_switch
                              \/ r.active_workspace_switch
                              \/ is_scroll_layout(r)
    IN  IF space = None THEN r
        ELSE IF suppress_animation
        THEN batch_for_apps(r, layout, skip_wid, o, Pids)
        ELSE IF r.vwm_active[space] # None
        THEN run_animation(
                 animate_windows(r, layout, space, r.vwm_active[space],
                                 skip_wid, o, DOMAIN layout),
                 animated_wids(r, layout, space, r.vwm_active[space],
                               skip_wid))
        ELSE r

\* any_frame_changed of the batched path on screen scr, before the writes
frames_changed(r, scr, skip_wid, is_workspace_switch) ==
    LET space == r.screens[scr]
        layout == calculate_layout_with_virtual_workspaces(r, space, scr)
    IN  /\ space # None
        /\ is_workspace_switch \/ r.active_workspace_switch
              \/ is_scroll_layout(r)
        /\ \E w \in DOMAIN layout :
              /\ w # skip_wid
              /\ w \in DOMAIN r.windows
              /\ (is_scroll_layout(r)
                  \/ layout[w] # r.windows[w].frame_monotonic)

RECURSIVE layout_screens(_, _, _, _, _, _)
layout_screens(r, scr, skip_wid, is_workspace_switch, o, changed) ==
    IF scr > Len(r.screens) THEN [r |-> r, changed |-> changed]
    ELSE layout_screens(
             layout_screen(r, scr, skip_wid, is_workspace_switch, o),
             scr + 1, skip_wid, is_workspace_switch, o,
             changed \/ frames_changed(r, scr, skip_wid,
                                       is_workspace_switch))

\* returns the reactor after the pass and any_frame_changed
update_layout(reactor, is_resize, is_workspace_switch, o) ==
    value({
        LET skip_wid == IF r.skip_layout_for_window # None
                        THEN r.skip_layout_for_window
                        ELSE r.drag_manager.dragged
            r1 == [r EXCEPT !.skip_layout_for_window = None,
                            !.out.passes = @ + 1]
        IN  layout_screens(r1, 1, skip_wid, is_workspace_switch, o, FALSE)
        : r \in {reactor}})

\* the end of handle_event after the match on the event
finish_event(reactor, is_resize, window_was_destroyed, o) ==
    value({
        LET settle(res) ==
                [res.r EXCEPT !.is_workspace_switch = FALSE,
                              !.active_workspace_switch =
                                  IF @ /\ ~res.changed THEN FALSE ELSE @]
        IN  settle(IF ~r.in_drag \/ window_was_destroyed
                   THEN update_layout(r, is_resize, r.is_workspace_switch, o)
                   ELSE [r |-> r, changed |-> FALSE])
        : r \in {reactor}})

\* ---- drag session (reactor.rs) and drag manager ----
NoDrag == [window |-> None, origin_space |-> None, settled_space |-> None,
           layout_dirty |-> FALSE]
DragManager_reset == [dragged |-> None, origin_frame |-> NoFrame,
                      last_target |-> None]
NoSwap == [dragged |-> None, target |-> None]

ensure_active_drag(r, wid, frame) ==
    LET origin_space == best_space_for_window(r, frame)
        r1 == IF r.active_drag.window # wid
              THEN [r EXCEPT !.active_drag =
                       [window |-> wid, origin_space |-> origin_space,
                        settled_space |-> origin_space,
                        layout_dirty |-> FALSE]]
              ELSE r
    IN  [r1 EXCEPT !.skip_layout_for_window = wid]

\* no frame of the model has an empty area
resolve_drag_space(r, session, frame) ==
    IF best_space_for_window(r, frame) # None
    THEN best_space_for_window(r, frame)
    ELSE session.settled_space

update_active_drag(r, wid, new_frame) ==
    IF r.active_drag.window # wid THEN r
    ELSE LET resolved_space == resolve_drag_space(r, r.active_drag, new_frame)
         IN  IF r.active_drag.settled_space # resolved_space
             THEN [r EXCEPT !.active_drag.settled_space = resolved_space,
                            !.active_drag.layout_dirty = TRUE,
                            !.skip_layout_for_window = wid]
             ELSE r

mark_drag_dirty(r, wid) ==
    IF r.active_drag.window = wid
    THEN [r EXCEPT !.active_drag.layout_dirty = TRUE,
                   !.skip_layout_for_window = wid]
    ELSE r

\* DragManager::on_frame_change: the dragged window overlaps the candidate
\* that lies at the same position of the same screen
on_frame_change(r, wid, new_frame, candidates) ==
    LET over == {c \in candidates :
                    /\ r.windows[c].frame_monotonic.scr = new_frame.scr
                    /\ r.windows[c].frame_monotonic.pos = new_frame.pos}
    IN  [r EXCEPT !.drag_manager =
            [dragged |-> wid,
             origin_frame |-> IF @.dragged = wid THEN @.origin_frame
                              ELSE new_frame,
             last_target |-> IF over = {} THEN None
                             ELSE CHOOSE c \in over : \A d \in over : c <= d]]

maybe_swap_on_drag(r, wid, new_frame) ==
    IF ~r.in_drag \/ wid \notin DOMAIN r.windows \/ wid \in r.changing_screens
    THEN r
    ELSE
    LET space == IF r.active_drag.settled_space # None
                 THEN r.active_drag.settled_space
                 ELSE best_space_for_window(r, new_frame)
        origin_space_hint ==
            IF r.active_drag.origin_space # None
            THEN r.active_drag.origin_space
            ELSE IF r.drag_manager.dragged # None
            THEN best_space_for_window(r, r.drag_manager.origin_frame)
            ELSE None
    IN  IF space = None THEN r
        ELSE IF origin_space_hint # None /\ origin_space_hint # space
        THEN [r EXCEPT !.pending_drag_swap =
                           IF @.dragged = wid THEN NoSwap ELSE @,
                       !.drag_manager = DragManager_reset]
        ELSE IF ~is_window_in_active_workspace(r, space, wid) THEN r
        ELSE
        LET candidates ==
                {c \in (DOMAIN r.windows) \ {wid} :
                    /\ best_space_for_window(r, r.windows[c].frame_monotonic)
                           = space
                    /\ is_window_in_active_workspace(r, space, c)
                    /\ c \notin r.floating}
            r1 == on_frame_change(r, wid, new_frame, candidates)
        IN  IF r1.drag_manager.last_target # None
            THEN [r1 EXCEPT !.pending_drag_swap =
                                [dragged |-> wid,
                                 target |-> r1.drag_manager.last_target],
                            !.skip_layout_for_window = wid]
            ELSE [r1 EXCEPT !.pending_drag_swap =
                                IF @.dragged = wid THEN NoSwap ELSE @,
                            !.skip_layout_for_window =
                                IF @ = wid THEN None ELSE @]

\* finalize_active_drag that takes the session only when its layout is dirty
finalize_dirty_drag(r) ==
    IF r.active_drag.window # None /\ r.active_drag.layout_dirty
    THEN [r EXCEPT !.active_drag = NoDrag,
                   !.skip_layout_for_window = r.active_drag.window]
    ELSE r

finalize_active_drag(r) ==
    LET session == r.active_drag
        wid == session.window
        final_space == IF wid \in DOMAIN r.windows
                       THEN best_space_for_window(r,
                                r.windows[wid].frame_monotonic)
                       ELSE None
        added(r1) ==
            IF final_space = None THEN r1
            ELSE send_WindowAdded(
                     IF r1.vwm_active[final_space] # None
                     THEN assign_window_to_workspace(r1, final_space, wid,
                              r1.vwm_active[final_space])
                     ELSE r1,
                     final_space, wid)
        moved(r0) ==
            [added(IF session.origin_space # None
                   THEN send_WindowRemoved(r0, wid) ELSE r0)
             EXCEPT !.skip_layout_for_window = wid]
    IN  IF r.active_drag.window = None THEN r
        ELSE IF session.origin_space # final_space
        THEN moved([r EXCEPT !.active_drag = NoDrag])
        ELSE IF session.layout_dirty
        THEN [r EXCEPT !.active_drag = NoDrag,
                       !.skip_layout_for_window = wid]
        ELSE [r EXCEPT !.active_drag = NoDrag]

\* ------------------------------------------------------------------------
\* State
\* ------------------------------------------------------------------------
VARIABLES
    apps, windows, window_ids, window_server_info, visible_windows, screens,
    in_drag, is_workspace_switch, active_workspace_switch,
    mission_control_active, suppress_stale_window_cleanup, window_tx_store,
    drag_manager, skip_layout_for_window, pending_drag_swap,
    pending_space_change, active_drag, changing_screens,
    pending_mission_control_refresh, config_mode,
    pending_refocus_space, last_auto_workspace_switch,
    layouts, exposed, vwm_active, window_to_workspace, last_focused, floating,
    floating_last_focus, focused_window,
    sent, now, window_under_cursor,
    menu_open_depth, fullscreen_by_space, observed_window_server_ids,
    events_tx

vars == <<apps, windows, window_ids, window_server_info, visible_windows,
          screens, in_drag, is_workspace_switch, active_workspace_switch,
          mission_control_active, suppress_stale_window_cleanup,
          window_tx_store, drag_manager, skip_layout_for_window,
          pending_drag_swap, pending_space_change, active_drag,
          changing_screens, pending_mission_control_refresh, config_mode,
          pending_refocus_space, last_auto_workspace_switch,
          layouts, exposed, vwm_active, window_to_workspace, last_focused,
          floating, floating_last_focus, focused_window, sent, now,
          window_under_cursor, menu_open_depth, fullscreen_by_space,
          observed_window_server_ids, events_tx>>

NoTxid == -1
\* FullscreenTrack::default(); a space without an entry has this one
FullscreenTrack_default == [pids |-> {}, last_removed |-> << >>]
NoPending == [some |-> FALSE, spaces |-> << >>, ws_info |-> << >>]
NoAutoSwitch == [some |-> FALSE, occurred_at |-> 0, space |-> None,
                 from_workspace |-> None, to_workspace |-> None]
\* the reactor's fields as one record, with an empty log
Cur ==
    [apps |-> apps, windows |-> windows, window_ids |-> window_ids,
     window_server_info |-> window_server_info,
     visible_windows |-> visible_windows, screens |-> screens,
     in_drag |-> in_drag, is_workspace_switch |-> is_workspace_switch,
     active_workspace_switch |-> active_workspace_switch,
     mission_control_active |-> mission_control_active,
     suppress_stale_window_cleanup |-> suppress_stale_window_cleanup,
     window_tx_store |-> window_tx_store, drag_manager |-> drag_manager,
     skip_layout_for_window |-> skip_layout_for_window,
     pending_drag_swap |-> pending_drag_swap,
     pending_space_change |-> pending_space_change,
     active_drag |-> active_drag, changing_screens |-> changing_screens,
     pending_mission_control_refresh |-> pending_mission_control_refresh,
     config_mode |-> config_mode,
     pending_refocus_space |-> pending_refocus_space,
     last_auto_workspace_switch |-> last_auto_workspace_switch,
     layouts |-> layouts, exposed |-> exposed,
     vwm_active |-> vwm_active, window_to_workspace |-> window_to_workspace,
     last_focused |-> last_focused, floating |-> floating,
     floating_last_focus |-> floating_last_focus,
     focused_window |-> focused_window,
     sent |-> sent, now |-> now,
     window_under_cursor |-> window_under_cursor,
     menu_open_depth |-> menu_open_depth,
     fullscreen_by_space |-> fullscreen_by_space,
     observed_window_server_ids |-> observed_window_server_ids,
     events_tx |-> events_tx, out |-> NoOutput]

\* ids, width units and the queue of the reactor's own events stay within
\* the bounds of the model
MaxQueue == 2
Bounded(E, r) ==
    /\ \A w \in DOMAIN r.windows : r.windows[w].last_sent_txid <= E.txids
    /\ \A sp \in Spaces, ws \in Workspaces :
           \A i \in 1..Len(r.layouts[sp][ws].widths) :
               r.layouts[sp][ws].widths[i] <= MaxWidth
    /\ Len(r.events_tx) <= MaxQueue

\* the handler is evaluated once: next is its result
Step(E, next) ==
    \E r \in {next} :
    /\ Bounded(E, r)
    /\ apps' = r.apps
    /\ windows' = r.windows
    /\ window_ids' = r.window_ids
    /\ window_server_info' = r.window_server_info
    /\ visible_windows' = r.visible_windows
    /\ screens' = r.screens
    /\ in_drag' = r.in_drag
    /\ is_workspace_switch' = r.is_workspace_switch
    /\ active_workspace_switch' = r.active_workspace_switch
    /\ mission_control_active' = r.mission_control_active
    /\ suppress_stale_window_cleanup' = r.suppress_stale_window_cleanup
    /\ window_tx_store' = r.window_tx_store
    /\ drag_manager' = r.drag_manager
    /\ skip_layout_for_window' = r.skip_layout_for_window
    /\ pending_drag_swap' = r.pending_drag_swap
    /\ pending_space_change' = r.pending_space_change
    /\ active_drag' = r.active_drag
    /\ changing_screens' = r.changing_screens
    /\ pending_mission_control_refresh' = r.pending_mission_control_refresh
    /\ config_mode' = r.config_mode
    /\ pending_refocus_space' = r.pending_refocus_space
    /\ last_auto_workspace_switch' = r.last_auto_workspace_switch
    /\ last_focused' = r.last_focused
    /\ floating_last_focus' = r.floating_last_focus
    /\ now' = r.now
    /\ window_under_cursor' = r.window_under_cursor
    /\ layouts' = r.layouts
    /\ exposed' = r.exposed
    /\ vwm_active' = r.vwm_active
    /\ window_to_workspace' = r.window_to_workspace
    /\ floating' = r.floating
    /\ focused_window' = r.focused_window
    /\ sent' = r.sent
    /\ menu_open_depth' = r.menu_open_depth
    /\ fullscreen_by_space' = r.fullscreen_by_space
    /\ observed_window_server_ids' = r.observed_window_server_ids
    /\ events_tx' = r.events_tx

\* Reactor::new with a scroll layout engine and no screens
Init ==
    /\ apps = {}
    /\ windows = << >>
    /\ window_ids = {}
    /\ window_server_info = << >>
    /\ visible_windows = {}
    /\ screens = << >>
    /\ in_drag = FALSE
    /\ is_workspace_switch = FALSE
    /\ active_workspace_switch = FALSE
    /\ mission_control_active = FALSE
    /\ suppress_stale_window_cleanup = FALSE
    /\ window_tx_store = << >>
    /\ drag_manager = DragManager_reset
    /\ skip_layout_for_window = None
    /\ pending_drag_swap = NoSwap
    /\ pending_space_change = NoPending
    /\ active_drag = NoDrag
    /\ changing_screens = {}
    /\ pending_mission_control_refresh = {}
    /\ config_mode = "scroll"
    /\ pending_refocus_space = None
    /\ last_auto_workspace_switch = NoAutoSwitch
    /\ last_focused = [sp \in Spaces |-> [ws \in Workspaces |-> None]]
    /\ floating_last_focus = None
    /\ now = 0
    /\ window_under_cursor = None
    /\ layouts = [sp \in Spaces |-> [ws \in Workspaces |->
                     ScrollLayoutState_default]]
    /\ exposed = {}
    /\ vwm_active = [sp \in Spaces |-> None]
    /\ window_to_workspace = [sp \in Spaces |-> [w \in WindowIds |-> None]]
    /\ floating = {}
    /\ focused_window = None
    /\ sent = [w \in WindowIds |-> NoWrites]
    /\ menu_open_depth = 0
    /\ fullscreen_by_space = [sid \in FullscreenSpaceIds |->
                                  FullscreenTrack_default]
    /\ observed_window_server_ids = {}
    /\ events_tx = << >>

\* ------------------------------------------------------------------------
\* Inputs. An environment E bounds what the surroundings of the reactor
\* send: the windows the application has (wids), the spaces of the screens
\* (spaces), the frames and mouse states of frame changes (frames, mouse),
\* the layout modes of config updates (modes), whether window server
\* snapshots and discoveries list windows (lists), whether the application
\* reports the outcome of frame writes (acks), whether reports older than the
\* last write arrive (stale), whether sends can fail (errs), the highest
\* transaction id a window gets (txids) and whether the iteration order of
\* the hash maps varies (orders) and whether the application moves a window
\* after the last write to it (moves); an environment with commands, a cursor or
\* a clock lists the commands (cmds), what the cursor can be over (cursor)
\* and the steps of the clock (ticks)
\* ------------------------------------------------------------------------
Layers == {0, 1}
EnvPids(E) == {PidOf(w) : w \in E.wids}
SnapshotFrames == {Frame(2, 1, 100)}

\* iteration orders of the hash maps and the outcome of sending to an
\* application's request channel; an order matters once two windows are
\* known, a failing send once the application has a window
Orders(S) == {p \in [1..Cardinality(S) -> S] :
                 \A i, j \in DOMAIN p : i # j => p[i] # p[j]}
Ascending(S) == CHOOSE p \in Orders(S) :
                    \A i, j \in DOMAIN p : i < j => p[i] < p[j]
Oracles(E) ==
    [ord : IF E.orders /\ Cardinality(DOMAIN windows) >= 2
           THEN Orders(E.wids) ELSE {Ascending(E.wids)},
     send_err : {None} \cup {p \in apps :
                                /\ E.errs
                                /\ \E w \in DOMAIN windows : PidOf(w) = p}]

\* window server snapshots: at most one entry, of a known window; an entry
\* of a normal window may be older than the last write to the window
SnapshotInfos(E, w) ==
    [frame : SnapshotFrames, layer : {0},
     stale : IF sent[w].any /\ E.stale THEN BOOLEAN ELSE {FALSE}]
        \cup [frame : SnapshotFrames, layer : {1}, stale : {FALSE}]
Snapshots(E) ==
    {<< >>} \cup UNION {{w :> i : i \in SnapshotInfos(E, w)} :
                           w \in IF E.lists THEN DOMAIN windows ELSE {}}


\* ------------------------------------------------------------------------
\* Event handlers (Reactor::handle_event)
\* ------------------------------------------------------------------------
log_stale(r, wid) == [r EXCEPT !.out.stale = @ \cup {wid}]

\* the body of the loop of update_partial_window_server_info for one entry
update_window_server_info(r, wsid, info) ==
    LET r1 == [r EXCEPT !.window_server_info =
                  map_insert(@, wsid, [layer |-> info.layer])]
    IN  IF wsid \in r1.window_ids /\ wsid \in DOMAIN r1.windows
        THEN LET old == r1.windows[wsid].frame_monotonic
                 r2 == IF info.layer = 0
                       THEN [r1 EXCEPT
                                !.windows[wsid].frame_monotonic = info.frame]
                       ELSE r1
                 r3 == IF info.layer = 0 /\ info.stale /\ info.frame # old
                       THEN log_stale(r2, wsid) ELSE r2
             IN  [r3 EXCEPT !.windows[wsid].is_manageable =
                     compute_window_manageability(r3, wsid, r3.windows[wsid])]
        ELSE r1

RECURSIVE update_window_server_infos(_, _, _)
update_window_server_infos(r, ws_info, todo) ==
    IF todo = {} THEN r
    ELSE LET wsid == CHOOSE x \in todo : \A y \in todo : x <= y
         IN  update_window_server_infos(
                 update_window_server_info(r, wsid, ws_info[wsid]),
                 ws_info, todo \ {wsid})

update_partial_window_server_info(r, ws_info) ==
    update_window_server_infos(
        [r EXCEPT !.visible_windows = @ \cup DOMAIN ws_info,
                  !.observed_window_server_ids = @ \ DOMAIN ws_info],
        ws_info, DOMAIN ws_info)

update_complete_window_server_info(r, ws_info) ==
    update_partial_window_server_info([r EXCEPT !.visible_windows = {}],
                                      ws_info)

RECURSIVE expose_spaces(_, _)
expose_spaces(r, spaces) ==
    IF Len(spaces) = 0 THEN r
    ELSE expose_spaces(
             send_SpaceExposed(list_workspaces(r, Head(spaces)),
                               Head(spaces)),
             Tail(spaces))

expose_all_spaces(r) == expose_spaces(r, screen_spaces(r.screens))

set_screen_spaces(r, spaces) ==
    [r EXCEPT !.screens = explicit([i \in 1..Len(r.screens) |->
                              IF i <= Len(spaces) THEN spaces[i]
                              ELSE r.screens[i]])]

all_none(spaces) == \A i \in 1..Len(spaces) : spaces[i] = None

\* no window is the main window, so no WindowFocused event is sent
finalize_space_change(r, spaces, ws_info) ==
    LET r1 == [r EXCEPT !.suppress_stale_window_cleanup = all_none(spaces)]
        r2 == expose_all_spaces(r1)
        r3 == [r2 EXCEPT !.changing_screens = {}]
    IN  update_complete_window_server_info(r3, ws_info)

\* a reactor that gives up a pending change that does not fit the screens
try_apply_pending_space_change_dropping(r) ==
    IF ~r.pending_space_change.some THEN r
    ELSE LET pending == r.pending_space_change
             r1 == [r EXCEPT !.pending_space_change = NoPending]
         IN  IF Len(pending.spaces) = Len(r1.screens)
             THEN finalize_space_change(
                      set_screen_spaces(r1, pending.spaces),
                      pending.spaces, pending.ws_info)
             ELSE r1

\* no space of the screens is a native fullscreen space:
\* handle_fullscreen_space_transition returns false and changes nothing
try_apply_pending_space_change(r) ==
    IF ~r.pending_space_change.some THEN r
    ELSE LET pending == r.pending_space_change
             r1 == [r EXCEPT !.pending_space_change = NoPending]
         IN  IF Len(pending.spaces) = Len(r1.screens)
             THEN finalize_space_change(
                      set_screen_spaces(r1, pending.spaces),
                      pending.spaces, pending.ws_info)
             ELSE r

handle_ScreenParametersChanged(r, nframes, spaces, ws_info, o) ==
    LET r0 == [r EXCEPT !.suppress_stale_window_cleanup = all_none(spaces)]
        taken == \/ nframes = 0 /\ Len(spaces) # 0
                    /\ Len(spaces) = Len(r.screens)
                 \/ nframes # 0 /\ nframes = Len(spaces)
        r1 == IF nframes = 0
              THEN IF Len(spaces) = 0
                   THEN IF Len(r0.screens) # 0
                        THEN expose_all_spaces([r0 EXCEPT !.screens = << >>])
                        ELSE r0
                   ELSE IF Len(spaces) = Len(r0.screens)
                   THEN finalize_space_change(set_screen_spaces(r0, spaces),
                                              spaces, ws_info)
                   ELSE r0
              ELSE IF nframes # Len(spaces) THEN r0
              ELSE finalize_space_change([r0 EXCEPT !.screens = spaces],
                                         spaces, ws_info)
        r2 == IF taken THEN r1
              ELSE update_complete_window_server_info(r1, ws_info)
    IN  finish_event(try_apply_pending_space_change(r2), FALSE, FALSE, o)

handle_SpaceChanged(r, spaces, ws_info, o) ==
    IF r.mission_control_active
    THEN [r EXCEPT !.pending_space_change =
             [some |-> TRUE, spaces |-> spaces, ws_info |-> ws_info]]
    ELSE LET r1 == [r EXCEPT !.suppress_stale_window_cleanup =
                       all_none(spaces)]
         IN  IF Len(spaces) # Len(r1.screens)
             THEN [r1 EXCEPT !.pending_space_change =
                      [some |-> TRUE, spaces |-> spaces,
                       ws_info |-> ws_info]]
             ELSE finish_event(
                      finalize_space_change(
                          set_screen_spaces(
                              [r1 EXCEPT !.pending_space_change = NoPending],
                              spaces),
                          spaces, ws_info),
                      FALSE, FALSE, o)

NoLayer == -1

handle_WindowCreated(r, wid, info, ws_layer, mouse_down, o) ==
    LET r1 == [r EXCEPT !.window_ids = @ \cup {wid},
                        !.observed_window_server_ids = @ \ {wid},
                        !.window_server_info =
                            IF ws_layer # NoLayer
                            THEN map_insert(@, wid, [layer |-> ws_layer])
                            ELSE @]
        window_state == WindowState_from(info)
        is_manageable == compute_window_manageability(r1, wid, window_state)
        r2 == store_txid(r1, wid, window_state.last_sent_txid,
                         window_state.frame_monotonic)
        r3 == [r2 EXCEPT !.windows =
                  map_insert(@, wid, [window_state EXCEPT
                                         !.is_manageable = is_manageable])]
        r4 == IF is_manageable /\ best_space_for_window(r3, info.frame) # None
              THEN send_WindowAdded(r3,
                       best_space_for_window(r3, info.frame), wid)
              ELSE r3
        r5 == IF mouse_down THEN [r4 EXCEPT !.in_drag = TRUE] ELSE r4
    IN  finish_event(r5, FALSE, FALSE, o)

handle_WindowDestroyed(r, wid, o) ==
    LET forget_drag(r3) ==
            IF r3.drag_manager.dragged = wid
               \/ r3.drag_manager.last_target = wid
            THEN [r3 EXCEPT
                    !.drag_manager = DragManager_reset,
                    !.active_drag = IF r3.drag_manager.dragged = wid
                                    THEN NoDrag ELSE @,
                    !.in_drag = IF r3.drag_manager.dragged = wid
                                THEN FALSE ELSE @]
            ELSE r3
    IN  IF wid \notin DOMAIN r.windows THEN r
        ELSE finish_event(
                 [forget_drag(
                      [send_WindowRemoved(
                           [remove_txid_for_window(r, wid) EXCEPT
                              !.window_ids = @ \ {wid},
                              !.window_server_info = map_remove(@, wid),
                              !.visible_windows = @ \ {wid},
                              !.windows = map_remove(@, wid),
                              !.sent[wid] = NoWrites],
                           wid)
                       EXCEPT !.pending_drag_swap =
                           IF @.dragged = wid \/ @.target = wid
                           THEN NoSwap ELSE @])
                  EXCEPT !.skip_layout_for_window =
                      IF @ = wid THEN None ELSE @],
                 FALSE, TRUE, o)

\* the branch of WindowFrameChanged for a change made by the user: the
\* reactor after the branch and the is_resize it leaves for the tail
user_frame_change(r, wid, old_frame, new_frame, mouse_down, o) ==
    LET old_space == best_space_for_window(r, old_frame)
        new_space == best_space_for_window(r, new_frame)
        dragging(r2) ==
            maybe_swap_on_drag(
                IF old_frame.size # new_frame.size
                THEN mark_drag_dirty(r2, wid) ELSE r2,
                wid, new_frame)
    IN  IF mouse_down \/ r.in_drag
        THEN [r |-> dragging(update_active_drag(
                        ensure_active_drag([r EXCEPT !.in_drag = TRUE], wid,
                                           old_frame),
                        wid, new_frame)),
              is_resize |-> FALSE]
        ELSE IF old_space # new_space
        THEN IF r.active_drag.window = wid
             THEN [r |-> IF new_space # None
                         THEN [r EXCEPT
                                 !.active_drag.settled_space = new_space,
                                 !.active_drag.layout_dirty = TRUE]
                         ELSE r,
                   is_resize |-> FALSE]
             ELSE [r |-> update_layout(
                             IF new_space # None
                             THEN send_WindowAdded(
                                      IF r.vwm_active[new_space] # None
                                      THEN assign_window_to_workspace(r,
                                               new_space, wid,
                                               r.vwm_active[new_space])
                                      ELSE r,
                                      new_space, wid)
                             ELSE send_WindowRemoved(r, wid),
                             FALSE, FALSE, o).r,
                   is_resize |-> FALSE]
        ELSE IF old_frame.size # new_frame.size
        THEN [r |-> send_WindowResized(r, wid, old_frame, new_frame),
              is_resize |-> TRUE]
        ELSE [r |-> r, is_resize |-> FALSE]

\* the event reports a state of the window from before the last frame write
\* to it: it carries a transaction id that is not the last one sent
ignoring_frame_change_newer(window, last_seen) ==
    last_seen # NoTxid /\ last_seen > window.last_sent_txid
ignoring_frame_change(window, last_seen) ==
    last_seen # NoTxid /\ last_seen # window.last_sent_txid

\* the branch of WindowFrameChanged for the result of the last write
\* (triggered_by_rift): accepted is the reactor with the frame taken over
rift_frame_event_any(r, accepted, wid, new_frame) ==
    IF wid \in DOMAIN r.window_tx_store
    THEN remove_txid_for_window(accepted, wid)
    ELSE accepted
rift_frame_event(r, accepted, wid, new_frame) ==
    IF wid \in DOMAIN r.window_tx_store
    THEN IF new_frame = r.window_tx_store[wid].target
         THEN remove_txid_for_window(accepted, wid)
         ELSE r
    ELSE accepted

\* stale is the ghost flag of the event: it was produced before the
\* application had seen the last write to the window
handle_WindowFrameChanged(r, wid, new_frame, last_seen, requested, mouse_down, stale, o) ==
    LET window == r.windows[wid]
        triggered_by_rift == last_seen # NoTxid
                             /\ last_seen = window.last_sent_txid
        accept == [r EXCEPT !.windows[wid].frame_monotonic = new_frame]
        accepted == IF stale /\ new_frame # window.frame_monotonic
                    THEN log_stale(accept, wid) ELSE accept
        tail(res) == finish_event(res.r, res.is_resize, FALSE, o)
    IN  IF wid \in DOMAIN r.windows
           /\ (r.mission_control_active \/ wid \in r.changing_screens)
        THEN r
        ELSE IF wid \in DOMAIN r.windows
                /\ ignoring_frame_change(window, last_seen)
        THEN r
        ELSE IF wid \in DOMAIN r.windows /\ requested THEN r
        ELSE IF wid \in DOMAIN r.windows /\ triggered_by_rift
        THEN rift_frame_event(r, accepted, wid, new_frame)
        ELSE IF wid \in DOMAIN r.windows /\ window.frame_monotonic = new_frame
        THEN r
        ELSE tail(IF wid \notin DOMAIN r.windows
                  THEN [r |-> r, is_resize |-> FALSE]
                  ELSE user_frame_change(accepted, wid,
                           window.frame_monotonic, new_frame, mouse_down, o))

handle_WindowIsChangingScreens(r, wsid, o) ==
    LET r1 == [r EXCEPT
                 !.changing_screens = @ \cup {wsid},
                 !.skip_layout_for_window =
                     IF r.pending_drag_swap.dragged # None
                        /\ @ = r.pending_drag_swap.dragged
                     THEN None ELSE @,
                 !.pending_drag_swap = NoSwap,
                 !.drag_manager = DragManager_reset,
                 !.active_drag = NoDrag,
                 !.in_drag = TRUE]
        r2 == IF wsid \in r1.window_ids /\ wsid \in DOMAIN r1.windows
              THEN ensure_active_drag(r1, wsid,
                                      r1.windows[wsid].frame_monotonic)
              ELSE r1
    IN  finish_event(r2, FALSE, FALSE, o)

handle_MouseUp(r, o) ==
    LET swap == r.pending_drag_swap
        both == swap.dragged \in DOMAIN r.windows
                /\ swap.target \in DOMAIN r.windows
        swapped == swap.dragged # None /\ both
        by_frame == IF both
                    THEN best_space_for_window(r,
                             r.windows[swap.dragged].frame_monotonic)
                    ELSE None
        by_origin == IF r.drag_manager.dragged # None
                     THEN best_space_for_window(r,
                              r.drag_manager.origin_frame)
                     ELSE None
        swap_space == IF by_frame # None THEN by_frame
                      ELSE IF by_origin # None THEN by_origin
                      ELSE first_screen_space(r)
        finalize_needs_layout(r1) ==
            /\ r1.active_drag.window # None
            /\ \/ r1.active_drag.layout_dirty
               \/ r1.active_drag.origin_space #
                      (IF r1.active_drag.window \in DOMAIN r1.windows
                       THEN best_space_for_window(r1,
                                r1.windows[r1.active_drag.window]
                                    .frame_monotonic)
                       ELSE None)
        relayout(r3, need_layout_refresh) ==
            finish_event(
                [IF need_layout_refresh
                 THEN update_layout(r3, FALSE, FALSE, o).r ELSE r3
                 EXCEPT !.skip_layout_for_window = None],
                FALSE, FALSE, o)
        finalize(r1) ==
            relayout([finalize_active_drag(r1) EXCEPT
                         !.drag_manager = DragManager_reset],
                     swapped \/ finalize_needs_layout(r1))
        taken(t) ==
            IF ~both THEN t
            ELSE handle_layout_response(
                     [engine_SwapWindows(t, swap_space, swap.dragged,
                                         swap.target)
                      EXCEPT !.out.swaps =
                          Append(@, <<swap.dragged, swap.target>>)],
                     NoResponse)
    IN  finalize(IF swap.dragged = None THEN [r EXCEPT !.in_drag = FALSE]
                 ELSE taken([r EXCEPT !.in_drag = FALSE,
                                      !.pending_drag_swap = NoSwap,
                                      !.skip_layout_for_window =
                                          swap.dragged]))

RECURSIVE destroy_windows(_, _, _)
\* the windows of pid that the stale-window cleanup of a discovery
\* destroys; unsuitable is the window server's answer for the windows whose
\* stored layer is 0. The first definition is a cleanup that also runs
\* while mission control is active
stale_windows_during_mission_control(r, pid, known_visible, unsuitable) ==
    LET visibles_without_ax ==
            \E w \in r.visible_windows \cap r.window_ids :
                PidOf(w) = pid /\ w \notin known_visible
        has_visible_for_pid ==
            \E w \in r.visible_windows \cap r.window_ids : PidOf(w) = pid
        skip_stale_cleanup ==
            \/ r.suppress_stale_window_cleanup
            \/ pid \in r.pending_mission_control_refresh
            \/ r.in_drag
            \/ \E w \in r.changing_screens : PidOf(w) = pid
            \/ r.active_drag.window # None /\ PidOf(r.active_drag.window) = pid
            \/ known_visible = {} /\ ~has_visible_for_pid
            \/ visibles_without_ax
    IN  IF skip_stale_cleanup THEN {}
        ELSE {w \in DOMAIN r.windows :
                /\ PidOf(w) = pid
                /\ w \notin known_visible
                /\ ~r.windows[w].is_minimized
                /\ \/ w \in unsuitable
                   \/ /\ w \in DOMAIN r.window_server_info
                      /\ r.window_server_info[w].layer # 0}

stale_windows(r, pid, known_visible, unsuitable) ==
    LET visibles_without_ax ==
            \E w \in r.visible_windows \cap r.window_ids :
                PidOf(w) = pid /\ w \notin known_visible
        has_visible_for_pid ==
            \E w \in r.visible_windows \cap r.window_ids : PidOf(w) = pid
        skip_stale_cleanup ==
            \/ r.suppress_stale_window_cleanup
            \/ pid \in r.pending_mission_control_refresh
            \/ r.mission_control_active
            \/ r.in_drag
            \/ \E w \in r.changing_screens : PidOf(w) = pid
            \/ r.active_drag.window # None /\ PidOf(r.active_drag.window) = pid
            \/ known_visible = {} /\ ~has_visible_for_pid
            \/ visibles_without_ax
    IN  IF skip_stale_cleanup THEN {}
        ELSE {w \in DOMAIN r.windows :
                /\ PidOf(w) = pid
                /\ w \notin known_visible
                /\ ~r.windows[w].is_minimized
                /\ \/ w \in unsuitable
                   \/ /\ w \in DOMAIN r.window_server_info
                      /\ r.window_server_info[w].layer # 0}

\* the loop of on_windows_discovered_with_app_info over the new windows
discover_window(r, wid, info) ==
    LET r1 == [r EXCEPT !.window_ids = @ \cup {wid}]
    IN  IF wid \in DOMAIN r1.windows
        THEN LET old == r1.windows[wid].frame_monotonic
                 r2 == [r1 EXCEPT !.windows[wid] =
                          [@ EXCEPT
                             !.frame_monotonic = info.frame,
                             !.is_ax_standard = info.is_standard,
                             !.is_ax_root = info.is_root,
                             !.is_minimized = info.is_minimized,
                             !.is_manageable =
                                 compute_manageability_from_parts(r1, wid,
                                     info.is_minimized, info.is_standard,
                                     info.is_root)]]
             IN  IF info.stale /\ info.frame # old THEN log_stale(r2, wid)
                 ELSE r2
        ELSE LET state == WindowState_from(info)
             IN  [r1 EXCEPT !.windows = map_insert(@, wid,
                     [state EXCEPT !.is_manageable =
                         compute_window_manageability(r1, wid, state)])]

destroy_windows(r, todo, o) ==
    IF todo = {} THEN r
    ELSE LET wid == CHOOSE x \in todo : \A y \in todo : x <= y
         IN  destroy_windows(handle_WindowDestroyed(r, wid, o),
                             todo \ {wid}, o)

RECURSIVE discover_windows(_, _, _)
discover_windows(r, new, todo) ==
    IF todo = {} THEN r
    ELSE LET wid == CHOOSE x \in todo : \A y \in todo : x <= y
         IN  discover_windows(discover_window(r, wid, new[wid]), new,
                              todo \ {wid})

RECURSIVE windows_on_screens(_, _, _, _)
windows_on_screens(r, pid, app_windows, spaces) ==
    IF Len(spaces) = 0 THEN r
    ELSE LET space == Head(spaces)
             windows_for_space ==
                 seq_filter(app_windows,
                     {w \in DOMAIN r.windows :
                         best_space_for_window(r,
                             r.windows[w].frame_monotonic) = space})
             r1 == assign_all(r, windows_for_space, space)
         IN  windows_on_screens(
                 send_WindowsOnScreenUpdated(r1, space, pid,
                                             windows_for_space),
                 pid, app_windows, Tail(spaces))

on_windows_discovered_with_app_info(r, pid, new, known_visible, unsuitable, o) ==
    LET place(r3) ==
            LET placed(w) == /\ PidOf(w) = pid
                             /\ window_is_standard(r3, w)
                             /\ best_space_for_window(r3,
                                    r3.windows[w].frame_monotonic) # None
                from_visible == {w \in r3.visible_windows \cap r3.window_ids :
                                    placed(w)}
                from_known == {w \in known_visible \ from_visible : placed(w)}
                app_windows == seq_filter(o.ord, from_visible)
                                   \o seq_filter(o.ord, from_known)
            IN  IF ~\E w \in DOMAIN r3.windows : PidOf(w) = pid THEN r3
                ELSE windows_on_screens(r3, pid, app_windows,
                                        screen_spaces(r3.screens))
    IN  place(discover_windows(
                  [destroy_windows(r,
                       stale_windows(r, pid, known_visible, unsuitable), o)
                   EXCEPT !.pending_mission_control_refresh = @ \ {pid}],
                  new, DOMAIN new))

handle_ApplicationLaunched(r, pid, new, ws_info, o) ==
    LET r1 == [r EXCEPT !.apps = @ \cup {pid}]
        r2 == update_partial_window_server_info(r1, ws_info)
    IN  finish_event(
            on_windows_discovered_with_app_info(r2, pid, new, {}, {}, o),
            FALSE, FALSE, o)

handle_WindowsDiscovered(r, pid, new, known_visible, unsuitable, o) ==
    finish_event(
        on_windows_discovered_with_app_info(r, pid, new, known_visible,
                                            unsuitable, o),
        FALSE, FALSE, o)

\* only a Terminate request is sent to the application
handle_ApplicationTerminated(r, pid, o) == finish_event(r, FALSE, FALSE, o)

handle_ApplicationThreadTerminated_closing(r, pid, o) ==
    destroy_windows([r EXCEPT !.apps = @ \ {pid}],
                    {w \in DOMAIN r.windows : PidOf(w) = pid}, o)
handle_ApplicationThreadTerminated(r, pid, o) ==
    finish_event([r EXCEPT !.apps = @ \ {pid}], FALSE, FALSE, o)

handle_WindowMinimized(r, wid, o) ==
    IF wid \in DOMAIN r.windows /\ r.windows[wid].is_minimized THEN r
    ELSE finish_event(
             IF wid \notin DOMAIN r.windows THEN r
             ELSE send_WindowRemoved(
                      [r EXCEPT !.windows[wid].is_minimized = TRUE,
                                !.windows[wid].is_manageable = FALSE,
                                !.visible_windows = @ \ {wid}],
                      wid),
             FALSE, FALSE, o)

handle_WindowDeminiaturized(r, wid, o) ==
    IF wid \notin DOMAIN r.windows THEN r
    ELSE IF ~r.windows[wid].is_minimized THEN r
    ELSE
    LET window == r.windows[wid]
        is_manageable ==
            compute_manageability_from_parts(r, wid, FALSE,
                window.is_ax_standard, window.is_ax_root)
        r1 == [r EXCEPT !.windows[wid].is_minimized = FALSE,
                        !.windows[wid].is_manageable = is_manageable]
        space == best_space_for_window(r1, window.frame_monotonic)
    IN  finish_event(
            IF is_manageable /\ space # None
            THEN send_WindowAdded(r1, space, wid) ELSE r1,
            FALSE, FALSE, o)

handle_MissionControlNativeEntered(r, o) ==
    finish_event([r EXCEPT !.mission_control_active = TRUE],
                 FALSE, FALSE, o)

\* ws_info is the answer of the window server to the query for the
\* visible windows
refresh_windows_after_mission_control(r, ws_info, o) ==
    LET r1 == update_partial_window_server_info(r, ws_info)
        r2 == [r1 EXCEPT !.pending_mission_control_refresh =
                  r1.apps \ {o.send_err}]
    IN  update_layout(r2, FALSE, FALSE, o).r

handle_MissionControlNativeExited(r, ws_info, o) ==
    finish_event(
        refresh_windows_after_mission_control(
            [r EXCEPT !.mission_control_active = FALSE], ws_info, o),
        FALSE, FALSE, o)

handle_ConfigUpdated(r, mode, o) ==
    LET r1 == [r EXCEPT
                 !.config_mode = mode,
                 !.layouts = explicit([sp \in Spaces |-> explicit([ws \in Workspaces |->
                                 ensure_widths(r.layouts[sp][ws],
                                               default_window_ratio)])])]
    IN  finish_event(update_layout(r1, FALSE, TRUE, o).r, FALSE, FALSE, o)

send_WindowFocused(r, space, wid) ==
    handle_layout_response(
        log_event(engine_WindowFocused(r, space, wid),
                  <<"WindowFocused", space, wid>>),
        NoResponse)

\* Command::Reactor(ReactorCommand::FocusWindow) for a window id
handle_Command_FocusWindow(reactor, wid, o) ==
    value({
        LET space == best_space_for_window(r, r.windows[wid].frame_monotonic)
            r1 == IF space # None THEN send_WindowFocused(r, space, wid) ELSE r
        IN  finish_event(
                IF wid \notin DOMAIN r.windows THEN r
                ELSE [r1 EXCEPT !.out.raises =
                         Append(@, [raise_windows |-> << >>,
                                    focus_window |-> wid])],
                FALSE, FALSE, o)
        : r \in {reactor}})

WorkspaceSwitches == {"NextWorkspace", "PrevWorkspace", "SwitchToWorkspace",
                      "SwitchToLastWorkspace"}
WorkspaceCommands == WorkspaceSwitches
                         \cup {"MoveWindowToWorkspace", "CreateWorkspace"}

\* Command::Layout; command_space is workspace_command_space(): the space
\* of the main window, else the active space, else that of the first
\* screen that has one
handle_Command_Layout(reactor, cmd, command_space, o) ==
    value({
        LET visible_spaces == screen_spaces(r.screens)
            switch == cmd.type \in WorkspaceSwitches
            engine(r1) ==
                IF cmd.type \in WorkspaceCommands
                THEN IF command_space # None
                     THEN handle_virtual_workspace_command(r1, command_space,
                                                           cmd, o.ord)
                     ELSE [r |-> r1, response |-> NoResponse]
                ELSE handle_command(r1, command_space, visible_spaces, cmd)
            respond(res) ==
                handle_layout_response(
                    [res.r EXCEPT !.is_workspace_switch = switch], res.response)
            scrolled(r2) ==
                IF cmd.type = "ScrollWorkspace"
                THEN update_layout(r2, FALSE, FALSE, o).r ELSE r2
        IN  finish_event(
                scrolled(respond(value({engine(r1) : r1 \in
                    {IF switch THEN [r EXCEPT !.active_workspace_switch = TRUE]
                     ELSE r}}))),
                FALSE, FALSE, o)
        : r \in {reactor}})

AUTO_SWITCH_BOUNCE_MS == 300

app_is_on_visible_workspace(r, pid) ==
    LET visible_spaces == {r.screens[i] : i \in 1..Len(r.screens)} \ {None}
        on_active(wid) ==
            LET space == best_space_for_window(r,
                             r.windows[wid].frame_monotonic)
            IN  /\ space # None
                /\ space \in visible_spaces
                /\ r.vwm_active[space] # None
                /\ workspace_for_window(r, space, wid) # None
                /\ r.vwm_active[space] = workspace_for_window(r, space, wid)
    IN  \E wid \in DOMAIN r.windows : PidOf(wid) = pid /\ on_active(wid)

\* a reactor without the debounce: no switch is a bounce
auto_switch_bounced_never(r, window_space, current_workspace, window_workspace) == FALSE

\* the switch would undo the last automatic switch of the space too early
auto_switch_bounced(r, window_space, current_workspace, window_workspace) ==
    LET last_switch == r.last_auto_workspace_switch
    IN  /\ last_switch.some
        /\ last_switch.space = window_space
        /\ last_switch.to_workspace = current_workspace
        /\ last_switch.from_workspace = window_workspace
        /\ r.now - last_switch.occurred_at < AUTO_SWITCH_BOUNCE_MS

\* the running application and its bundle id always resolve, and the
\* blacklist of the configuration is empty
handle_app_activation_workspace_switch(reactor, pid, o) ==
    value({
        LET candidates == seq_filter(o.ord,
                              {wid \in DOMAIN r.windows :
                                  PidOf(wid) = pid /\ window_is_standard(r, wid)})
            app_window_id == candidates[1]
            window_space == best_space_for_window(r,
                                r.windows[app_window_id].frame_monotonic)
            window_workspace == workspace_for_window(r, window_space,
                                                     app_window_id)
            current_workspace == r.vwm_active[window_space]
            switched ==
                LET r1 == [r EXCEPT
                             !.last_auto_workspace_switch =
                                 [some |-> TRUE, occurred_at |-> r.now,
                                  space |-> window_space,
                                  from_workspace |-> current_workspace,
                                  to_workspace |-> window_workspace],
                             !.active_workspace_switch = TRUE,
                             !.is_workspace_switch = TRUE]
                    res == engine_SwitchToWorkspace(r1, window_space,
                                                    window_workspace - 1)
                IN  value({handle_layout_response(v.r, v.response) :
                              v \in {res}})
        IN  IF r.active_workspace_switch THEN r
            ELSE IF app_is_on_visible_workspace(r, pid) THEN r
            ELSE IF Len(candidates) = 0 THEN r
            ELSE IF window_space = None THEN r
            ELSE IF window_workspace = None \/ current_workspace = None THEN r
            ELSE IF window_workspace = current_workspace THEN r
            ELSE IF auto_switch_bounced(r, window_space, current_workspace,
                                        window_workspace) THEN r
            ELSE switched
        : r \in {reactor}})

handle_ApplicationGloballyActivated(r, pid, o) ==
    finish_event(handle_app_activation_workspace_switch(r, pid, o),
                 FALSE, FALSE, o)

\* ---- native fullscreen spaces and window server callbacks ----
space_is_fullscreen(sid) == sid \in FullscreenSpaceIds
space_is_user(sid) == sid \in Spaces

LAST_REMOVED_CAP == 5

\* a tracker that never evicts
track_fullscreen_unbounded(r, sid, pid, wsid) ==
    [r EXCEPT !.fullscreen_by_space[sid] =
        [pids |-> @.pids \cup {pid},
         last_removed |-> Append(@.last_removed, wsid)]]

\* the entry of the space gets the pid and, as its newest element, the
\* window server id; the oldest one leaves a full queue
track_fullscreen(r, sid, pid, wsid) ==
    [r EXCEPT !.fullscreen_by_space[sid] =
        [pids |-> @.pids \cup {pid},
         last_removed |->
             Append(IF Len(@.last_removed) >= LAST_REMOVED_CAP
                    THEN Tail(@.last_removed) ELSE @.last_removed,
                    wsid)]]

\* Event::WindowServerDestroyed(wsid, sid); the requests to the application
\* (MarkWindowsNeedingInfo, GetVisibleWindows) leave the reactor; every
\* branch of a fullscreen or user space returns before the layout pass
handle_WindowServerDestroyed(r, wsid, sid, o) ==
    IF space_is_fullscreen(sid)
    THEN IF wsid \in r.window_ids \/ wsid \in DOMAIN r.window_server_info
         THEN track_fullscreen(r, sid, PidOf(wsid), wsid)
         ELSE r
    ELSE IF space_is_user(sid)
    THEN IF wsid \in r.window_ids
         THEN [r EXCEPT !.window_ids = @ \ {wsid},
                        !.window_server_info = map_remove(@, wsid),
                        !.visible_windows = @ \ {wsid},
                        !.events_tx = Append(@, <<"WindowDestroyed", wsid>>)]
         ELSE r
    ELSE finish_event(r, FALSE, FALSE, o)

\* Event::WindowServerAppeared(wsid, sid); info is the answer of
\* window_server::get_window, NoInfo when the window server has no such
\* window
NoInfo == [frame |-> NoFrame, layer |-> NoLayer, stale |-> FALSE]
handle_WindowServerAppeared(r, wsid, sid, info, o) ==
    LET r1 == [r EXCEPT !.observed_window_server_ids = @ \cup {wsid}]
    IN  IF wsid \in DOMAIN r.window_server_info
           \/ wsid \in r.observed_window_server_ids
        THEN r
        ELSE IF info = NoInfo THEN finish_event(r1, FALSE, FALSE, o)
        ELSE IF info.layer # 0 THEN r1
        ELSE IF space_is_fullscreen(sid)
        THEN track_fullscreen(r1, sid, PidOf(wsid), wsid)
        ELSE finish_event(
                 update_partial_window_server_info(r1, wsid :> info),
                 FALSE, FALSE, o)

\* ---- menus and focus follows mouse ----
MaxMenuDepth == 2

handle_MenuOpened(r, o) ==
    finish_event([r EXCEPT !.menu_open_depth = @ + 1], FALSE, FALSE, o)

handle_MenuClosed(r, o) ==
    finish_event(IF r.menu_open_depth = 0 THEN r
                 ELSE [r EXCEPT !.menu_open_depth = @ - 1],
                 FALSE, FALSE, o)

\* the request SetFocusFollowsMouseEnabled that the event tap gets
update_focus_follows_mouse_state(r) ==
    r.menu_open_depth = 0 /\ ~r.mission_control_active

\* a frame as a rectangle of its screen: strip position i starts at i
\* times the full width; all frames have the height of the screen
CGRectNull == [scr |-> 0, left |-> 0, right |-> 0]
CGRect(frame) ==
    [scr |-> frame.scr, left |-> frame.pos * default_window_ratio,
     right |-> frame.pos * default_window_ratio + frame.size]

intersection(a, b) ==
    IF a.scr = b.scr /\ Max(a.left, b.left) < Min(a.right, b.right)
    THEN [scr |-> a.scr, left |-> Max(a.left, b.left),
          right |-> Min(a.right, b.right)]
    ELSE CGRectNull

\* the test of the loop of should_raise_on_mouse_over
occluded_by(candidate_frame, above_frame) ==
    intersection(CGRect(candidate_frame), CGRect(above_frame))
        = CGRect(above_frame)

\* the windows of order before wid, the candidate
above_in(order, wid) ==
    IF \E i \in 1..Len(order) : order[i] = wid
    THEN {order[j] : j \in {k \in 1..Len(order) :
                               \A i \in 1..k : order[i] # wid}}
    ELSE {order[j] : j \in 1..Len(order)}

\* order is the answer of space_window_list_for_connection: the window
\* server ids of the space from top to bottom
should_raise_on_mouse_over(r, wid, order) ==
    LET candidate_frame == r.windows[wid].frame_monotonic
        space == best_space_for_window(r, candidate_frame)
    IN  IF wid \notin DOMAIN r.windows THEN FALSE
        ELSE IF r.menu_open_depth > 0 THEN FALSE
        ELSE IF space = None THEN FALSE
        ELSE IF ~is_window_in_active_workspace(r, space, wid) THEN FALSE
        ELSE ~\E above \in above_in(order, wid) :
                  /\ above \in r.window_ids
                  /\ above \in DOMAIN r.windows
                  /\ occluded_by(candidate_frame,
                                 r.windows[above].frame_monotonic)

raise_window(r, wid) ==
    [r EXCEPT !.out.raises =
        Append(@, [raise_windows |-> <<<<wid>>>>, focus_window |-> wid])]

handle_mouse_over_in_scroll(r, wid, order) ==
    LET space == best_space_for_window(r, r.windows[wid].frame_monotonic)
    IN  IF ~should_raise_on_mouse_over(r, wid, order) THEN r
        ELSE IF wid \in r.floating THEN raise_window(r, wid)
        ELSE IF space = None THEN r
        ELSE IF ~is_window_in_active_workspace(r, space, wid) THEN r
        ELSE raise_window(send_WindowFocused(r, space, wid), wid)

handle_MouseMovedOverWindow(r, wsid, order, o) ==
    IF wsid \notin r.window_ids THEN r
    ELSE finish_event(
             IF is_scroll_layout(r)
             THEN handle_mouse_over_in_scroll(r, wsid, order)
             ELSE IF should_raise_on_mouse_over(r, wsid, order)
             THEN raise_window(r, wsid)
             ELSE r,
             FALSE, FALSE, o)

\* ------------------------------------------------------------------------
\* Actions: one event of the reactor's queue each
\* ------------------------------------------------------------------------
ScreenParametersChanged(E) ==
    \E spaces \in E.spaces, ws_info \in Snapshots(E), o \in Oracles(E) :
      \E nframes \in {0, Len(spaces)} :
        Step(E, handle_ScreenParametersChanged(Cur, nframes, spaces, ws_info, o))

SpaceChanged(E) ==
    \E spaces \in E.spaces, ws_info \in Snapshots(E), o \in Oracles(E) :
        Step(E, handle_SpaceChanged(Cur, spaces, ws_info, o))

WindowInfos(E) ==
    [frame : E.frames, is_standard : {TRUE}, is_root : {TRUE},
     is_minimized : {FALSE}]

\* an application creates a window it does not have yet
WindowCreated(E) ==
    \E wid \in E.wids \ DOMAIN windows, info \in WindowInfos(E),
       ws_layer \in Layers, mouse_down \in {FALSE}, o \in Oracles(E) :
        /\ PidOf(wid) \in apps
        /\ Step(E, handle_WindowCreated(Cur, wid, info, ws_layer, mouse_down, o))

WindowDestroyed(E) ==
    \E wid \in E.wids, o \in Oracles(E) :
        Step(E, handle_WindowDestroyed(Cur, wid, o))

\* the frame changes an application can report for window w: a change
\* made by the user, possibly reported after a later write to the window;
\* the result of the last write or a step towards it; the result of an
\* earlier write
FrameChanges(E, w) ==
    [frame : E.frames, last_seen : {NoTxid}, requested : {FALSE},
     mouse_down : E.mouse, stale : {FALSE}]
    \cup (IF sent[w].any
          THEN [frame : IF E.stale THEN SnapshotFrames ELSE {},
                last_seen : {NoTxid}, requested : {FALSE},
                mouse_down : {FALSE}, stale : {TRUE}]
               \cup [frame : IF E.acks THEN {sent[w].target, Frame(1, 1, 50)}
                             ELSE {},
                     last_seen : {sent[w].last}, requested : BOOLEAN,
                     mouse_down : {FALSE}, stale : {FALSE}]
               \cup [frame : IF E.moves THEN E.frames ELSE {},
                     last_seen : {sent[w].last}, requested : {FALSE},
                     mouse_down : {FALSE}, stale : {FALSE}]
               \cup [frame : {sent[w].target},
                     last_seen : IF E.stale THEN sent[w].older ELSE {},
                     requested : {FALSE}, mouse_down : {FALSE},
                     stale : {TRUE}]
          ELSE {})

WindowFrameChanged(E) ==
    \E wid \in E.wids, o \in Oracles(E) :
        \E c \in FrameChanges(E, wid) :
            /\ PidOf(wid) \in apps
            /\ Step(E, handle_WindowFrameChanged(Cur, wid, c.frame, c.last_seen,
                        c.requested, c.mouse_down, c.stale, o))

WindowIsChangingScreens(E) ==
    \E wsid \in E.wids, o \in Oracles(E) :
        Step(E, handle_WindowIsChangingScreens(Cur, wsid, o))

MouseUp(E) ==
    \E o \in Oracles(E) : Step(E, handle_MouseUp(Cur, o))

\* windows reported by a discovery: at most one, with a ghost flag that
\* tells whether the report is older than the last write to the window
Discovered(E, pid) ==
    {<< >>} \cup UNION {{w :> i :
                            i \in [frame : SnapshotFrames,
                                   is_standard : {TRUE}, is_root : {TRUE},
                                   is_minimized : {FALSE},
                                   stale : IF sent[w].any /\ E.stale
                                           THEN BOOLEAN ELSE {FALSE}]} :
                        w \in {x \in E.wids : E.lists /\ PidOf(x) = pid}}

ApplicationLaunched(E) ==
    \E pid \in EnvPids(E), o \in Oracles(E) :
        \E new \in Discovered(E, pid), ws_info \in Snapshots(E) :
            Step(E, handle_ApplicationLaunched(Cur, pid, new, ws_info, o))

\* what the application says of its known windows in a discovery
Visibility(pid) ==
    LET known == {w \in DOMAIN windows : PidOf(w) = pid}
    IN  {[known_visible |-> {}, unsuitable |-> {}],
         [known_visible |-> known, unsuitable |-> {}],
         [known_visible |-> {}, unsuitable |-> known]}

WindowsDiscovered(E) ==
    \E pid \in apps, o \in Oracles(E) :
        \E new \in Discovered(E, pid), v \in Visibility(pid) :
            Step(E, handle_WindowsDiscovered(Cur, pid, new, v.known_visible,
                                          v.unsuitable, o))

ApplicationTerminated(E) ==
    \E pid \in EnvPids(E), o \in Oracles(E) :
        Step(E, handle_ApplicationTerminated(Cur, pid, o))

ApplicationThreadTerminated(E) ==
    \E pid \in apps, o \in Oracles(E) :
        Step(E, handle_ApplicationThreadTerminated(Cur, pid, o))

WindowMinimized(E) ==
    \E wid \in E.wids, o \in Oracles(E) :
        /\ PidOf(wid) \in apps
        /\ Step(E, handle_WindowMinimized(Cur, wid, o))

WindowDeminiaturized(E) ==
    \E wid \in E.wids, o \in Oracles(E) :
        /\ PidOf(wid) \in apps
        /\ Step(E, handle_WindowDeminiaturized(Cur, wid, o))

MissionControlNativeEntered(E) ==
    \E o \in Oracles(E) : Step(E, handle_MissionControlNativeEntered(Cur, o))

MissionControlNativeExited(E) ==
    \E ws_info \in Snapshots(E), o \in Oracles(E) :
        Step(E, handle_MissionControlNativeExited(Cur, ws_info, o))

ConfigUpdated(E) ==
    \E mode \in E.modes, o \in Oracles(E) :
        Step(E, handle_ConfigUpdated(Cur, mode, o))

CommandSpaces ==
    IF Len(screen_spaces(screens)) = 0 THEN {None}
    ELSE {screen_spaces(screens)[i] : i \in 1..Len(screen_spaces(screens))}

CommandLayout(E) ==
    \E cmd \in E.cmds, command_space \in CommandSpaces, o \in Oracles(E) :
        Step(E, handle_Command_Layout(Cur, cmd, command_space, o))

CommandFocusWindow(E) ==
    \E wid \in E.wids \cap DOMAIN windows, o \in Oracles(E) :
        Step(E, handle_Command_FocusWindow(Cur, wid, o))

ApplicationGloballyActivated(E) ==
    \E pid \in EnvPids(E), o \in Oracles(E) :
        Step(E, handle_ApplicationGloballyActivated(Cur, pid, o))

\* window server callbacks for the windows of the environment, on the
\* spaces E.sids; the window server knows a window that appears, or not
WindowServerDestroyed(E) ==
    \E wsid \in E.wids, sid \in E.sids, o \in Oracles(E) :
        Step(E, handle_WindowServerDestroyed(Cur, wsid, sid, o))

WindowServerAppeared(E) ==
    \E wsid \in E.wids, sid \in E.sids, o \in Oracles(E),
       info \in {NoInfo} \cup [frame : E.frames, layer : Layers,
                               stale : {FALSE}] :
        Step(E, handle_WindowServerAppeared(Cur, wsid, sid, info, o))

\* the reactor takes the event it sent to itself from its queue
SynthesizedDelivered(E) ==
    \E o \in Oracles(E) :
        /\ events_tx # << >>
        /\ Head(events_tx)[1] = "WindowDestroyed"
        /\ Step(E, handle_WindowDestroyed(
                       [Cur EXCEPT !.events_tx = Tail(@)],
                       Head(events_tx)[2], o))

MenuOpened(E) ==
    \E o \in Oracles(E) :
        /\ menu_open_depth < MaxMenuDepth
        /\ Step(E, handle_MenuOpened(Cur, o))

MenuClosed(E) ==
    \E o \in Oracles(E) : Step(E, handle_MenuClosed(Cur, o))

\* the window order of the space is any order of the environment's windows
MouseMovedOverWindow(E) ==
    \E wsid \in E.wids, order \in Orders(E.wids), o \in Oracles(E) :
        Step(E, handle_MouseMovedOverWindow(Cur, wsid, order, o))

\* the surroundings: the cursor moves over another window or off every
\* window, and time passes between two events
CursorMoved(E) ==
    \E under \in E.cursor \ {window_under_cursor} :
        /\ under \in DOMAIN windows \cup {None, Untracked}
        /\ Step(E, [Cur EXCEPT !.window_under_cursor = under])

MaxClock == 300
TimePasses(E) ==
    \E d \in E.ticks :
        /\ now + d <= MaxClock
        /\ Step(E, [Cur EXCEPT !.now = @ + d])

\* ------------------------------------------------------------------------
\* Specifications
\* ------------------------------------------------------------------------
\* One window on one screen, with everything the window server and the
\* application can report about it: the life of a window and of its frame
\* writes
Env ==
    [wids |-> {1}, spaces |-> {<<1>>},
     frames |-> {Frame(1, 1, 100), Frame(1, 1, 200)}, mouse |-> {FALSE},
     modes |-> {"traditional", "scroll"}, lists |-> TRUE, acks |-> TRUE,
     stale |-> TRUE, errs |-> TRUE,
     txids |-> MaxTxid, orders |-> TRUE, moves |-> FALSE]

Next ==
    \/ ScreenParametersChanged(Env)
    \/ SpaceChanged(Env)
    \/ WindowCreated(Env)
    \/ WindowDestroyed(Env)
    \/ WindowFrameChanged(Env)
    \/ ApplicationLaunched(Env)
    \/ WindowsDiscovered(Env)
    \/ ApplicationThreadTerminated(Env)
    \/ ConfigUpdated(Env)

Spec == Init /\ [][Next]_vars

\* Two windows of one application on one screen, laid out in both modes:
\* batched and animated frame writes
EnvBatch ==
    [wids |-> {1, 2}, spaces |-> {<<1>>}, frames |-> {Frame(1, 1, 100)},
     mouse |-> {FALSE}, modes |-> {"traditional", "scroll"}, lists |-> FALSE,
     acks |-> TRUE, stale |-> FALSE, errs |-> FALSE,
     txids |-> MaxTxid, orders |-> TRUE, moves |-> FALSE]

NextBatch ==
    \/ ScreenParametersChanged(EnvBatch)
    \/ WindowCreated(EnvBatch)
    \/ WindowFrameChanged(EnvBatch)
    \/ ApplicationLaunched(EnvBatch)
    \/ ConfigUpdated(EnvBatch)

SpecBatch == Init /\ [][NextBatch]_vars

\* One screen that changes its space, and mission control
EnvMC ==
    [wids |-> {1}, spaces |-> {<<1>>, <<2>>}, frames |-> {Frame(1, 1, 100)},
     mouse |-> {FALSE}, modes |-> {"scroll"}, lists |-> TRUE, acks |-> FALSE,
     stale |-> FALSE, errs |-> FALSE,
     txids |-> MaxTxid, orders |-> TRUE, moves |-> FALSE]

NextMC ==
    \/ ScreenParametersChanged(EnvMC)
    \/ SpaceChanged(EnvMC)
    \/ WindowCreated(EnvMC)
    \/ ApplicationLaunched(EnvMC)
    \/ MissionControlNativeEntered(EnvMC)
    \/ MissionControlNativeExited(EnvMC)

SpecMC == Init /\ [][NextMC]_vars

\* Two windows on one screen, dragged with the mouse over each other
EnvSwap ==
    [wids |-> {1, 2}, spaces |-> {<<1>>},
     frames |-> {Frame(1, 1, 100), Frame(1, 2, 100)}, mouse |-> BOOLEAN,
     modes |-> {"scroll"}, lists |-> FALSE, acks |-> FALSE, stale |-> FALSE,
     errs |-> FALSE,
     txids |-> MaxTxid, orders |-> TRUE, moves |-> FALSE]

NextSwap ==
    \/ ScreenParametersChanged(EnvSwap)
    \/ WindowCreated(EnvSwap)
    \/ WindowFrameChanged(EnvSwap)
    \/ MouseUp(EnvSwap)
    \/ ApplicationLaunched(EnvSwap)

SpecSwap == Init /\ [][NextSwap]_vars

\* One window dragged between two screens
EnvCross ==
    [wids |-> {1}, spaces |-> {<<1, 2>>},
     frames |-> {Frame(1, 1, 100), Frame(2, 1, 100)}, mouse |-> BOOLEAN,
     modes |-> {"scroll"}, lists |-> FALSE, acks |-> FALSE, stale |-> FALSE,
     errs |-> FALSE,
     txids |-> MaxTxid, orders |-> TRUE, moves |-> FALSE]

NextCross ==
    \/ ScreenParametersChanged(EnvCross)
    \/ WindowCreated(EnvCross)
    \/ WindowFrameChanged(EnvCross)
    \/ WindowIsChangingScreens(EnvCross)
    \/ MouseUp(EnvCross)
    \/ ApplicationLaunched(EnvCross)

SpecCross == Init /\ [][NextCross]_vars

\* Three windows of two applications in one scroll strip, moved by the
\* commands of the scroll layout
MaxTxidScroll == 5
ScrollDeltas == {49, 2, 100, -100}
ScrollCommands ==
    {Command("ScrollWorkspace", d, f) : d \in ScrollDeltas, f \in BOOLEAN}
        \cup {Command(t, d, FALSE) :
                  t \in {"MoveFocus", "MoveNode"}, d \in {"Left", "Right"}}

EnvScroll ==
    [wids |-> {1, 2, 3}, spaces |-> {<<1>>}, frames |-> {Frame(1, 1, 100)},
     mouse |-> {FALSE}, modes |-> {"scroll"}, lists |-> FALSE,
     acks |-> FALSE, stale |-> FALSE, errs |-> FALSE,
     txids |-> MaxTxidScroll, orders |-> FALSE, cmds |-> ScrollCommands,
     moves |-> FALSE]

NextScroll ==
    \/ ScreenParametersChanged(EnvScroll)
    \/ WindowCreated(EnvScroll)
    \/ WindowDestroyed(EnvScroll)
    \/ ApplicationLaunched(EnvScroll)
    \/ CommandLayout(EnvScroll)

SpecScroll == Init /\ [][NextScroll]_vars

\* ------------------------------------------------------------------------
\* Claims.  A claim about one event is a predicate of the state the event
\* arrives in: the handler is applied to the reactor of that state for every
\* input of the event.
\* ------------------------------------------------------------------------
\* the events that carry a snapshot of the window server
SnapshotEvents(ws_info, o) ==
    {handle_SpaceChanged(Cur, spaces, ws_info, o) : spaces \in Env.spaces}
    \cup {handle_ScreenParametersChanged(Cur, n, spaces, ws_info, o) :
             spaces \in Env.spaces, n \in {0, 1}}
    \cup {handle_MissionControlNativeExited(Cur, ws_info, o)}

\* the events that carry the window list of an application
DiscoveryEvents(pid, new, o) ==
    {handle_ApplicationLaunched(Cur, pid, new, ws_info, o) :
        ws_info \in Snapshots(Env)}
    \cup {handle_WindowsDiscovered(Cur, pid, new, v.known_visible,
                                   v.unsuitable, o) : v \in Visibility(pid)}

\* C1: no event that carries a frame for a known window (a frame change, a
\* window list of its application, a snapshot of the window server)
\* overwrites the window's frame_monotonic with a frame that was reported
\* before the last frame write to the window
C1_NoOverwriteByOlderFeedback ==
    \A o \in Oracles(Env) :
        /\ \A wid \in DOMAIN windows : \A c \in FrameChanges(Env, wid) :
               handle_WindowFrameChanged(Cur, wid, c.frame, c.last_seen,
                   c.requested, c.mouse_down, c.stale, o).out.stale = {}
        /\ \A ws_info \in Snapshots(Env) :
               \A r \in SnapshotEvents(ws_info, o) : r.out.stale = {}
        /\ \A pid \in apps : \A new \in Discovered(Env, pid) :
               \A r \in DiscoveryEvents(pid, new, o) : r.out.stale = {}

\* the frames, transaction ids and mouse states a WindowFrameChanged can
\* carry, whatever the application is in a position to report
AnyFrameChange ==
    [frame : Frames \cup {Frame(1, 1, 50)}, last_seen : 0..MaxTxid,
     requested : BOOLEAN, mouse_down : BOOLEAN, stale : BOOLEAN]

\* C2: a WindowFrameChanged for a known window whose last_seen transaction
\* id is older than the window's last_sent_txid leaves the whole reactor as
\* it was (frame_monotonic, tx-store, drag session and pending swap among
\* the rest), emits no layout event and runs no layout pass
C2_OlderFrameChangeDropped ==
    \A wid \in DOMAIN windows, o \in Oracles(EnvSwap) :
        \A c \in AnyFrameChange :
            c.last_seen < windows[wid].last_sent_txid
            => handle_WindowFrameChanged(Cur, wid, c.frame, c.last_seen,
                   c.requested, c.mouse_down, c.stale, o) = Cur

\* a written window during a drag that has recorded a swap
C2_Witness ==
    \E wid \in DOMAIN windows :
        /\ windows[wid].last_sent_txid > 0
        /\ wid \in DOMAIN window_tx_store
        /\ pending_drag_swap.dragged # None
        /\ active_drag.window # None
        /\ ~mission_control_active /\ wid \notin changing_screens

\* C3: a WindowFrameChanged that carries the window's last_sent_txid, with
\* requested false and a frame other than the target the tx-store holds for
\* the window, is an intermediate step of the write: frame_monotonic stays
\* what it was (the written target, when the write had set it) and the
\* entry of the tx-store stays
C3_IntermediateFrameSkipped ==
    \A wid \in DOMAIN windows \cap DOMAIN window_tx_store,
       o \in Oracles(Env) :
        \A c \in AnyFrameChange :
            /\ c.last_seen = windows[wid].last_sent_txid
            /\ ~c.requested
            /\ c.frame # window_tx_store[wid].target
            => LET r == handle_WindowFrameChanged(Cur, wid, c.frame,
                            c.last_seen, c.requested, c.mouse_down,
                            c.stale, o)
               IN  /\ r.windows[wid].frame_monotonic =
                          windows[wid].frame_monotonic
                   /\ wid \in DOMAIN r.window_tx_store
                   /\ r.window_tx_store[wid] = window_tx_store[wid]

\* a window after a batched write: the tx-store holds the written target
\* under the last transaction id and frame_monotonic is that target
C3_Witness ==
    \E wid \in DOMAIN windows \cap DOMAIN window_tx_store :
        /\ sent[wid].any
        /\ windows[wid].last_sent_txid = sent[wid].last
        /\ window_tx_store[wid].txid = sent[wid].last
        /\ window_tx_store[wid].target = sent[wid].target
        /\ windows[wid].frame_monotonic = sent[wid].target
        /\ ~mission_control_active /\ wid \notin changing_screens

\* C4: the transaction id of every frame write sent to a window is greater
\* than the id of every earlier write sent to that window, whether the
\* writes are animated single writes or batched ones
C4_TxidsStrictlyIncrease ==
    \A w \in WindowIds :
        sent[w].any => \A t \in sent[w].older : t < sent[w].last

\* C5: for every known window, the tx-store has no entry for it or the
\* target of the entry is the target of the last frame write sent to the
\* window; an entry of a window that has not been written yet (the one
\* WindowCreated makes with the reported frame) is left out of the
\* comparison
C5_StoreTargetIsLastSentTarget ==
    \A w \in DOMAIN windows \cap DOMAIN window_tx_store :
        sent[w].any => window_tx_store[w].target = sent[w].target

\* the layout events of one kind in the log of a handled event
events_of(r, kind) ==
    {r.out.events[i] : i \in {j \in DOMAIN r.out.events :
                                 r.out.events[j][1] = kind}}

\* C6: a SpaceChanged handled while mission control is active only fills
\* pending_space_change (the screens keep their spaces, no layout event is
\* emitted), and MissionControlNativeExited commits a pending change that
\* fits the screens: the screens take the pending spaces, SpaceExposed is
\* emitted for each of them and pending_space_change is empty afterwards
C6_PendingSpaceChangeCommitsOnExit ==
    \A o \in Oracles(EnvMC), ws_info \in Snapshots(EnvMC) :
        /\ mission_control_active
           => \A spaces \in EnvMC.spaces :
                 handle_SpaceChanged(Cur, spaces, ws_info, o) =
                     [Cur EXCEPT !.pending_space_change =
                         [some |-> TRUE, spaces |-> spaces,
                          ws_info |-> ws_info]]
        /\ (/\ mission_control_active
            /\ pending_space_change.some
            /\ Len(pending_space_change.spaces) = Len(screens))
           => LET r == handle_MissionControlNativeExited(Cur, ws_info, o)
              IN  /\ ~r.pending_space_change.some
                  /\ r.screens = pending_space_change.spaces
                  /\ \A i \in DOMAIN pending_space_change.spaces :
                         <<"SpaceExposed", pending_space_change.spaces[i], 0>>
                             \in events_of(r, "SpaceExposed")

\* C7: a frame change of a drag sends no SwapWindows to the layout engine,
\* whatever swap target it detects; a MouseUp with a pending swap whose two
\* windows are known applies SwapWindows(dragged, target) once and runs one
\* layout pass
C7_SwapDeferredToMouseUp ==
    \A o \in Oracles(EnvSwap) :
        /\ \A wid \in DOMAIN windows : \A c \in FrameChanges(EnvSwap, wid) :
               handle_WindowFrameChanged(Cur, wid, c.frame, c.last_seen,
                   c.requested, c.mouse_down, c.stale, o).out.swaps = << >>
        /\ (/\ pending_drag_swap.dragged \in DOMAIN windows
            /\ pending_drag_swap.target \in DOMAIN windows)
           => LET r == handle_MouseUp(Cur, o)
              IN  /\ r.out.swaps = <<<<pending_drag_swap.dragged,
                                       pending_drag_swap.target>>>>
                  /\ r.out.passes = 1

\* the spaces that have window wid in one of their layouts
layout_spaces(r, wid) ==
    {sp \in Spaces : \E ws \in Workspaces :
                        contains_window(r.layouts[sp][ws], wid)}

\* C8: a MouseUp that ends the drag of a window whose frame lies on the
\* screen of another space than the one that has it in a layout (it was
\* dragged across the screen boundary, with or without a
\* WindowIsChangingScreens for it in between) removes the window from the
\* layouts of the origin space and puts it in the layout of the active
\* workspace of the destination space
C8_CrossScreenDragReassigns ==
    \A o \in Oracles(EnvCross) :
        \A wid \in DOMAIN windows, origin \in Spaces :
            LET dest == best_space_for_window(Cur,
                            windows[wid].frame_monotonic)
                r == handle_MouseUp(Cur, o)
            IN  (/\ in_drag
                 /\ active_drag.window = wid
                 /\ origin \in layout_spaces(Cur, wid)
                 /\ dest # None
                 /\ dest # origin)
                => /\ origin \notin layout_spaces(r, wid)
                   /\ r.vwm_active[dest] # None
                   /\ workspace_for_window(r, dest, wid) = r.vwm_active[dest]
                   /\ contains_window(
                          r.layouts[dest][r.vwm_active[dest]], wid)

\* C9: a known window whose manageability bit is false is a member of no
\* layout
C9_UnmanageableInNoLayout ==
    \A wid \in DOMAIN windows :
        ~windows[wid].is_manageable => layout_spaces(Cur, wid) = {}

\* C10: ApplicationThreadTerminated(pid) removes the handle of pid and
\* nothing else of the application: its windows stay known with their
\* frames, every layout keeps its strip of windows as it was, and no
\* WindowRemoved or AppClosed event is sent to the layout engine
C10_ThreadTerminatedKeepsWindows ==
    \A pid \in apps, o \in Oracles(Env) :
        LET r == handle_ApplicationThreadTerminated(Cur, pid, o)
        IN  /\ r.apps = apps \ {pid}
            /\ DOMAIN r.windows = DOMAIN windows
            /\ \A w \in DOMAIN windows :
                   r.windows[w].frame_monotonic = windows[w].frame_monotonic
            /\ \A sp \in Spaces, ws \in Workspaces :
                   r.layouts[sp][ws].windows = layouts[sp][ws].windows
            /\ r.window_to_workspace = window_to_workspace
            /\ events_of(r, "WindowRemoved") = {}
            /\ events_of(r, "AppClosed") = {}

\* a tiled window whose application has lost its handle
C10_Witness ==
    \E w \in DOMAIN windows :
        PidOf(w) \notin apps /\ layout_spaces(Cur, w) # {}

\* ---- the scroll strip under commands ----
\* the commands of the strip, with every argument of the model
StripCommands ==
    ScrollCommands
        \cup {Command("ScrollWorkspace", d, f) : d \in {-49, 149, 0},
                                                  f \in BOOLEAN}
        \cup {Command(t, 0, FALSE) :
                 t \in {"ResizeWindowGrow", "ResizeWindowShrink",
                        "ToggleTileOrientation", "ToggleWindowFloating"}}

\* the lists of windows an application can report
AppWindowLists(pid) ==
    UNION {Orders(S) : S \in SUBSET {w \in WindowIds : PidOf(w) = pid}}

\* the reactor after one more command or layout event of the strip
AfterStripOperation(E) ==
    {handle_Command_Layout(Cur, cmd, sp, o) :
        cmd \in StripCommands, sp \in CommandSpaces, o \in Oracles(E)}
    \cup {engine_SwapWindows(Cur, sp, a, b) :
             sp \in CommandSpaces \ {None}, a \in WindowIds, b \in WindowIds}
    \cup UNION {{engine_WindowsOnScreenUpdated(Cur, sp, pid, wins) :
                    wins \in AppWindowLists(pid)} :
                   sp \in CommandSpaces \ {None}, pid \in Pids}
    \cup {engine_WindowRemoved(Cur, w) : w \in WindowIds}
    \cup {engine_WindowFocused(Cur, sp, w) :
             sp \in CommandSpaces \ {None}, w \in DOMAIN windows}

AllLayouts(r) == {r.layouts[sp][ws] : sp \in Spaces, ws \in Workspaces}

OffsetInRange(s) ==
    /\ 0 <= s.scroll_offset
    /\ s.scroll_offset <= 100 * Max(0, Len(s.windows) - 1)

\* C12: in every scroll layout, in every reachable state and after one more
\* operation of the strip (a scroll, a committed scroll, a focus move, a
\* window added or removed, the window list of an application, a swap, a
\* moved selection, a resize, a toggled orientation), the scroll offset is
\* at least 0 and at most max(0, |windows| - 1) window widths
C12_OffsetInRange ==
    /\ \A s \in AllLayouts(Cur) : OffsetInRange(s)
    /\ \A r \in AfterStripOperation(EnvScroll) :
           \A s \in AllLayouts(r) : OffsetInRange(s)

\* a strip of three windows that shows its last window and loses a window
C12_Witness ==
    \E s \in AllLayouts(Cur) :
        /\ Len(s.windows) = 3
        /\ s.scroll_offset > 100
        /\ \E r \in AfterStripOperation(EnvScroll) :
               \E s2 \in AllLayouts(r) :
                   /\ Len(s2.windows) = 2
                   /\ s2.scroll_offset = 100

ActiveLayout(r, space) == r.layouts[space][r.vwm_active[space]]

\* the commands that commit the scroll offset
CommittingCommands ==
    {Command("ScrollWorkspace", d, TRUE) : d \in ScrollDeltas \cup {0}}
        \cup {Command(t, d, FALSE) :
                 t \in {"MoveFocus", "MoveNode"}, d \in {"Left", "Right"}}

Committed(s) ==
    s.selected # None /\ position(s.windows, s.selected) # NoIdx
        => s.scroll_offset = 100 * position(s.windows, s.selected)

\* C13: in a scroll layout with a selection, after a command that commits
\* (a finalizing scroll, a focus move, a moved selection, a selected, added,
\* removed or swapped window) the scroll offset is the index of the selected
\* window, also when an earlier scroll left a fractional offset
C13_CommitSetsOffsetToSelection ==
    \A sp \in CommandSpaces \ {None} :
        sp \in exposed /\ vwm_active[sp] # None =>
            /\ \A cmd \in CommittingCommands, o \in Oracles(EnvScroll) :
                   Committed(ActiveLayout(
                       handle_Command_Layout(Cur, cmd, sp, o), sp))
            /\ \A w \in DOMAIN windows :
                   Committed(ActiveLayout(engine_WindowFocused(Cur, sp, w),
                                          sp))
            /\ \A w \in WindowIds :
                   position(ActiveLayout(Cur, sp).windows, w) # NoIdx =>
                       Committed(ActiveLayout(engine_WindowRemoved(Cur, w),
                                              sp))
            /\ \A a \in WindowIds, b \in WindowIds :
                   /\ position(ActiveLayout(Cur, sp).windows, a) # NoIdx
                   /\ position(ActiveLayout(Cur, sp).windows, b) # NoIdx
                   => Committed(ActiveLayout(
                          engine_SwapWindows(Cur, sp, a, b), sp))

\* ---- the widths of the strip ----
\* Two windows on one screen, resized by the user and by commands
MaxTxidResize == 5
ResizeCommands ==
    {Command(t, 0, FALSE) : t \in {"ResizeWindowGrow", "ResizeWindowShrink"}}
        \cup {Command("MoveFocus", "Left", FALSE)}

EnvResize ==
    [wids |-> {1, 2}, spaces |-> {<<1>>},
     frames |-> {Frame(1, 1, 100), Frame(1, 1, 25)}, mouse |-> {FALSE},
     modes |-> {"scroll"}, lists |-> FALSE, acks |-> FALSE, stale |-> FALSE,
     errs |-> FALSE, txids |-> MaxTxidResize, orders |-> FALSE,
     cmds |-> ResizeCommands,
     moves |-> FALSE]

NextResize ==
    \/ ScreenParametersChanged(EnvResize)
    \/ WindowCreated(EnvResize)
    \/ WindowFrameChanged(EnvResize)
    \/ ApplicationLaunched(EnvResize)
    \/ CommandLayout(EnvResize)

SpecResize == Init /\ [][NextResize]_vars

WidthsWellFormed(s) ==
    /\ Len(s.widths) = Len(s.windows)
    /\ \A i \in 1..Len(s.widths) : s.widths[i] >= MIN_WIDTH_UNITS

\* C14: in every scroll layout, in every reachable state and after one more
\* operation of the strip, there is one width per window and every width is
\* at least MIN_WIDTH_UNITS; this includes ResizeWindowShrink on a window
\* that already has the least width
C14_WidthsWellFormed ==
    /\ \A s \in AllLayouts(Cur) : WidthsWellFormed(s)
    /\ \A r \in AfterStripOperation(EnvResize) :
           \A s \in AllLayouts(r) : WidthsWellFormed(s)

\* the selected window has the least width and ResizeWindowShrink leaves it
C14_Witness ==
    \E sp \in CommandSpaces \ {None} :
        /\ vwm_active[sp] # None
        /\ LET s == ActiveLayout(Cur, sp)
           IN  /\ s.selected # None
               /\ position(s.windows, s.selected) # NoIdx
               /\ s.widths[position(s.windows, s.selected) + 1]
                      = MIN_WIDTH_UNITS
               /\ ActiveLayout(
                      handle_Command_Layout(
                          Cur, Command("ResizeWindowShrink", 0, FALSE), sp,
                          [ord |-> Ascending(EnvResize.wids),
                           send_err |-> None]), sp).widths = s.widths

\* ---- scrolling without finalizing ----
FractionalDeltas == ScrollDeltas \cup {-49, 149, -2}
Scroll(delta, finalize) == Command("ScrollWorkspace", delta, finalize)
FixedOrder(E) == [ord |-> Ascending(E.wids), send_err |-> None]

\* the active strip of an exposed space has a selected window
StripWithSelection(r, sp) ==
    /\ sp \in r.exposed
    /\ r.vwm_active[sp] # None
    /\ ActiveLayout(r, sp).selected # None
    /\ position(ActiveLayout(r, sp).windows, ActiveLayout(r, sp).selected)
           # NoIdx

\* C15 as stated: ScrollWorkspace{delta, finalize: false} adds delta to the
\* scroll offset; the selection advances to the next window exactly when the
\* fractional part of the new offset reaches snap_threshold, and below the
\* threshold the selection is unchanged and the fractional offset is kept
\* (for a delta that keeps the offset within the strip)
C15_ScrollAdvancesAtThreshold ==
    \A sp \in CommandSpaces \ {None}, d \in FractionalDeltas :
        /\ StripWithSelection(Cur, sp)
        /\ OffsetInRange([ActiveLayout(Cur, sp) EXCEPT
                             !.scroll_offset = @ + d])
        =>  LET s == ActiveLayout(Cur, sp)
                s2 == ActiveLayout(
                          handle_Command_Layout(Cur, Scroll(d, FALSE), sp,
                                                FixedOrder(EnvScroll)), sp)
                idx == position(s.windows, s.selected)
                offset == s.scroll_offset + d
            IN  IF offset % 100 >= snap_threshold
                THEN s2.selected = s.windows[Min(idx + 2, Len(s.windows))]
                ELSE s2.selected = s.selected /\ s2.scroll_offset = offset

\* C15, amended: ScrollWorkspace{delta, finalize: false} moves the scroll
\* offset by delta within [0, |windows| - 1]; the target is the whole part
\* of the new offset, or the window after it when the fractional part
\* reaches snap_threshold and that window exists.  If the target is not the
\* selected window it becomes selected and the offset becomes its index;
\* otherwise the selection is unchanged and the fractional offset is kept.
\* With three windows and selection at index 0, delta 0.49 keeps selection 0
\* and a further delta 0.02 selects index 1
C15_ScrollSnapsToTarget ==
    \A sp \in CommandSpaces \ {None}, d \in FractionalDeltas :
        StripWithSelection(Cur, sp) =>
            LET s == ActiveLayout(Cur, sp)
                r2 == handle_Command_Layout(Cur, Scroll(d, FALSE), sp,
                                            FixedOrder(EnvScroll))
                s2 == ActiveLayout(r2, sp)
                s3 == ActiveLayout(
                          handle_Command_Layout(r2, Scroll(2, FALSE), sp,
                                                FixedOrder(EnvScroll)), sp)
                idx == position(s.windows, s.selected)
                last == 100 * (Len(s.windows) - 1)
                offset == Max(0, Min(s.scroll_offset + d, last))
                whole == offset \div 100
                target == IF /\ offset - 100 * whole >= snap_threshold
                             /\ whole + 1 < Len(s.windows)
                          THEN whole + 1 ELSE whole
            IN  /\ s2.windows = s.windows
                /\ IF target # idx
                   THEN /\ s2.selected = s.windows[target + 1]
                        /\ s2.scroll_offset = 100 * target
                   ELSE /\ s2.selected = s.selected
                        /\ s2.scroll_offset = offset
                /\ Len(s.windows) = 3 /\ idx = 0 /\ s.scroll_offset = 0
                       /\ d = 49
                   => /\ s2.selected = s.selected
                      /\ s2.scroll_offset = 49
                      /\ s3.selected = s.windows[2]

\* three windows, the first selected and shown: a scroll by 0.49 keeps the
\* selection with offset 0.49 and a further 0.02 selects the second window
C15_Witness ==
    \E sp \in CommandSpaces \ {None} :
        /\ StripWithSelection(Cur, sp)
        /\ Len(ActiveLayout(Cur, sp).windows) = 3
        /\ position(ActiveLayout(Cur, sp).windows,
                    ActiveLayout(Cur, sp).selected) = 0
        /\ ActiveLayout(Cur, sp).scroll_offset = 0
        /\ \E r2 \in {handle_Command_Layout(Cur, Scroll(49, FALSE), sp,
                                            FixedOrder(EnvScroll))} :
               /\ ActiveLayout(r2, sp).selected
                      = ActiveLayout(Cur, sp).selected
               /\ ActiveLayout(r2, sp).scroll_offset = 49
               /\ ActiveLayout(
                      handle_Command_Layout(r2, Scroll(2, FALSE), sp,
                                            FixedOrder(EnvScroll)),
                      sp).selected = ActiveLayout(Cur, sp).windows[2]

\* ---- scrolling there and back ----
RoundTripDeltas == FractionalDeltas \cup {50, 200, -200}
WholeDeltas == {100, 200, -100, -200}

\* the selection of the active strip of sp after ScrollWorkspace{n, true}
\* and then ScrollWorkspace{-n, true}
RoundTrip(r, sp, n) ==
    LET back(r2) == handle_Command_Layout(r2, Scroll(0 - n, TRUE), sp,
                                          FixedOrder(EnvScroll))
    IN  ActiveLayout(
            value({back(r2) : r2 \in
                {handle_Command_Layout(r, Scroll(n, TRUE), sp,
                                       FixedOrder(EnvScroll))}}),
            sp).selected

ToggleFloating == Command("ToggleWindowFloating", 0, FALSE)

\* the reactor after ToggleWindowFloating resolved to sp1 and a second one
\* resolved to sp2
ToggleTwice(r, sp1, sp2, o) ==
    value({handle_Command_Layout(r2, ToggleFloating, sp2, o) :
              r2 \in {handle_Command_Layout(r, ToggleFloating, sp1, o)}})

\* C18: for a focused tiled window, ToggleWindowFloating followed by
\* ToggleWindowFloating leaves the window tiled, in the layout of the same
\* workspace and at the same position of its strip, with the same
\* neighbours, whichever space the commands resolve to
C18_ToggleFloatingTwiceRestores ==
    \A sp1 \in CommandSpaces, sp2 \in CommandSpaces :
        /\ focused_window # None
        /\ focused_window \notin floating
        /\ layout_spaces(Cur, focused_window) # {}
        =>  LET r == ToggleTwice(Cur, sp1, sp2, FixedOrder(EnvScroll))
            IN  /\ focused_window \notin r.floating
                /\ \A sp \in Spaces, ws \in Workspaces :
                       r.layouts[sp][ws].windows = layouts[sp][ws].windows

\* ---- workspaces ----
\* One window on one screen with two workspaces, switched and moved between
\* by commands, listed by the window server, and a cursor
SwitchAndMoveCommands ==
    {Command(t, i, FALSE) :
        t \in {"SwitchToWorkspace", "MoveWindowToWorkspace"}, i \in {0, 1}}

EnvWorkspace ==
    [wids |-> {1}, spaces |-> {<<1>>}, frames |-> {Frame(1, 1, 100)},
     mouse |-> {FALSE}, modes |-> {"scroll"}, lists |-> TRUE,
     acks |-> FALSE, stale |-> FALSE, errs |-> FALSE,
     txids |-> MaxTxidScroll, orders |-> FALSE, cmds |-> SwitchAndMoveCommands,
     cursor |-> {None, 1, Untracked},
     moves |-> FALSE]

NextWorkspace ==
    \/ ScreenParametersChanged(EnvWorkspace)
    \/ WindowCreated(EnvWorkspace)
    \/ ApplicationLaunched(EnvWorkspace)
    \/ CommandLayout(EnvWorkspace)
    \/ CommandFocusWindow(EnvWorkspace)
    \/ CursorMoved(EnvWorkspace)

SpecWorkspace == Init /\ [][NextWorkspace]_vars

SwitchTo(i) == Command("SwitchToWorkspace", i, FALSE)

\* the raise requests of r that raise or focus a window
RaiseOrFocusRequests(r) ==
    {i \in 1..Len(r.out.raises) :
        \/ r.out.raises[i].raise_windows # << >>
        \/ r.out.raises[i].focus_window # None}

\* C17: a second SwitchToWorkspace(i) right after the first leaves the
\* active workspaces, the focused window and the layouts as the first one
\* left them, marks no workspace switch as in flight that was not, and sends
\* no request to raise or focus a window
C17_SecondSwitchIsNoOp ==
    \A i \in {0, 1}, sp \in CommandSpaces, o \in Oracles(EnvWorkspace) :
        \A r1 \in {handle_Command_Layout(Cur, SwitchTo(i), sp, o)} :
            \A r2 \in {handle_Command_Layout([r1 EXCEPT !.out = NoOutput],
                                             SwitchTo(i), sp, o)} :
                /\ r2.vwm_active = r1.vwm_active
                /\ r2.focused_window = r1.focused_window
                /\ r2.layouts = r1.layouts
                /\ r2.active_workspace_switch => r1.active_workspace_switch
                /\ RaiseOrFocusRequests(r2) = {}

\* ---- one workspace per window ----
\* One window on two screens: the application moves it between the
\* screens, and commands move it between the workspaces
EnvMove ==
    [wids |-> {1}, spaces |-> {<<1, 2>>},
     frames |-> {Frame(1, 1, 100), Frame(2, 1, 100)}, mouse |-> {FALSE},
     modes |-> {"scroll"}, lists |-> FALSE, acks |-> FALSE, stale |-> FALSE,
     errs |-> FALSE, txids |-> MaxTxidScroll, orders |-> FALSE,
     cmds |-> {Command("MoveWindowToWorkspace", i, FALSE) : i \in {0, 1}},
     moves |-> TRUE]

NextMove ==
    \/ ScreenParametersChanged(EnvMove)
    \/ WindowCreated(EnvMove)
    \/ WindowDestroyed(EnvMove)
    \/ WindowFrameChanged(EnvMove)
    \/ ApplicationLaunched(EnvMove)
    \/ CommandLayout(EnvMove)
    \/ CommandFocusWindow(EnvMove)

SpecMove == Init /\ [][NextMove]_vars

\* how often wid occurs in the strip
Occurrences(seq, wid) == Cardinality({i \in 1..Len(seq) : seq[i] = wid})

RECURSIVE SumOver(_, _, _)
SumOver(S, seq_of(_), wid) ==
    IF S = {} THEN 0
    ELSE LET x == CHOOSE y \in S : TRUE
         IN  Occurrences(seq_of(x), wid) + SumOver(S \ {x}, seq_of, wid)

\* C11: within one space a tiled window is a member of at most one of the
\* layouts of the workspaces, and occurs there at most once
C11_WindowInAtMostOneWorkspace ==
    \A sp \in Spaces, w \in WindowIds :
        LET strip(ws) == layouts[sp][ws].windows
        IN  SumOver(Workspaces, strip, w) <= 1

\* Windows of two applications on two workspaces of one screen in the
\* traditional mode, with application activations and a clock
MaxTxidAuto == 4
ClockTicks == {150}
EnvAuto ==
    [wids |-> {1, 3}, spaces |-> {<<1>>}, frames |-> {Frame(1, 1, 100)},
     mouse |-> {FALSE}, modes |-> {"traditional"}, lists |-> FALSE,
     acks |-> FALSE, stale |-> FALSE, errs |-> FALSE,
     txids |-> MaxTxidAuto, orders |-> FALSE,
     cmds |-> {Command("MoveWindowToWorkspace", i, FALSE) : i \in {0, 1}},
     ticks |-> ClockTicks, moves |-> FALSE]

NextAuto ==
    \/ ScreenParametersChanged(EnvAuto)
    \/ WindowCreated(EnvAuto)
    \/ ApplicationLaunched(EnvAuto)
    \/ ConfigUpdated(EnvAuto)
    \/ CommandLayout(EnvAuto)
    \/ CommandFocusWindow(EnvAuto)
    \/ ApplicationGloballyActivated(EnvAuto)
    \/ TimePasses(EnvAuto)

SpecAuto == Init /\ [][NextAuto]_vars

\* Two windows of one application on two workspaces, in front of two
\* screens between which the application moves them
EnvApp ==
    [EnvAuto EXCEPT !.wids = {1, 2}, !.spaces = {<<1, 2>>},
                    !.frames = {Frame(1, 1, 100), Frame(2, 1, 100)},
                    !.modes = {"scroll"}, !.moves = TRUE]

NextApp ==
    \/ ScreenParametersChanged(EnvApp)
    \/ WindowCreated(EnvApp)
    \/ WindowFrameChanged(EnvApp)
    \/ ApplicationLaunched(EnvApp)
    \/ CommandLayout(EnvApp)
    \/ CommandFocusWindow(EnvApp)
    \/ ApplicationGloballyActivated(EnvApp)

SpecApp == Init /\ [][NextApp]_vars

\* the spaces of the screens
VisibleSpaces == {screens[i] : i \in 1..Len(screens)} \ {None}

\* a window of pid is assigned to the active workspace of a visible space
AppInActiveWorkspace(pid) ==
    \E wid \in DOMAIN windows, sp \in VisibleSpaces :
        /\ PidOf(wid) = pid
        /\ vwm_active[sp] # None
        /\ window_to_workspace[sp][wid] = vwm_active[sp]

\* C20: ApplicationGloballyActivated(pid) leaves the active workspace of
\* every space as it is when a window of pid is in the active workspace
\* of a visible space
C20_VisibleAppKeepsWorkspace ==
    \A pid \in Pids, o \in Oracles(EnvApp) :
        AppInActiveWorkspace(pid)
            => handle_ApplicationGloballyActivated(Cur, pid, o).vwm_active
                   = vwm_active

\* the times the clock of the model can show
ClockValues == 0..MaxClock
\* the last automatic switch took space sp from workspace a to b at time t
AutoSwitchedAt(sp, a, b, t) ==
    last_auto_workspace_switch =
        [some |-> TRUE, occurred_at |-> t, space |-> sp,
         from_workspace |-> a, to_workspace |-> b]

\* less than 300 ms after t no activation takes space sp from b back to a
NoSwitchBack(sp, a, b, t) ==
    (now - t < AUTO_SWITCH_BOUNCE_MS /\ vwm_active[sp] = b)
        => \A pid \in Pids, o \in Oracles(EnvAuto) :
               handle_ApplicationGloballyActivated(Cur, pid, o).vwm_active[sp]
                   # a

EnvFullscreen ==
    [wids |-> {1, 2}, spaces |-> {<<1>>}, frames |-> {Frame(1, 1, 100)},
     mouse |-> {FALSE}, modes |-> {"scroll"}, lists |-> FALSE,
     acks |-> FALSE, stale |-> FALSE, errs |-> FALSE,
     txids |-> MaxTxid, orders |-> FALSE, moves |-> FALSE,
     sids |-> {1} \cup FullscreenSpaceIds]

NextFullscreen ==
    \/ ScreenParametersChanged(EnvFullscreen)
    \/ WindowCreated(EnvFullscreen)
    \/ ApplicationLaunched(EnvFullscreen)
    \/ WindowServerDestroyed(EnvFullscreen)
    \/ SynthesizedDelivered(EnvFullscreen)

SpecFullscreen == Init /\ [][NextFullscreen]_vars

\* seq with its oldest element dropped when it is full, and wsid appended
Pushed(seq, wsid) ==
    Append(IF Len(seq) >= LAST_REMOVED_CAP THEN Tail(seq) ELSE seq, wsid)

\* C21: WindowServerDestroyed(wsid, sid) of a known window on a native
\* fullscreen space keeps the window in the window table, in the index of
\* window server ids and in its layout, sends no layout event and no
\* WindowDestroyed, records the pid of the window in the tracker of the
\* space and appends wsid to its queue, which holds at most 5 entries and
\* loses its oldest one first
C21_FullscreenDestroyKeepsWindow ==
    \A sid \in FullscreenSpaceIds :
        /\ Len(fullscreen_by_space[sid].last_removed) <= LAST_REMOVED_CAP
        /\ \A wsid \in window_ids, o \in Oracles(EnvFullscreen) :
               LET r2 == handle_WindowServerDestroyed(Cur, wsid, sid, o)
                   track == r2.fullscreen_by_space[sid]
               IN  /\ r2.windows = windows
                   /\ r2.window_ids = window_ids
                   /\ r2.layouts = layouts
                   /\ r2.out.events = << >>
                   /\ r2.events_tx = events_tx
                   /\ PidOf(wsid) \in track.pids
                   /\ track.last_removed =
                          Pushed(fullscreen_by_space[sid].last_removed, wsid)
                   /\ Len(track.last_removed) <= LAST_REMOVED_CAP

\* the queue of a fullscreen space is full while a tiled window is known,
\* and its oldest entry is not its newest one
C21_Witness ==
    \E sid \in FullscreenSpaceIds, wsid \in window_ids :
        LET q == fullscreen_by_space[sid].last_removed
        IN  /\ Len(q) = LAST_REMOVED_CAP
            /\ q[1] # q[LAST_REMOVED_CAP]
            /\ wsid \in DOMAIN windows
            /\ \E sp \in Spaces, ws \in Workspaces :
                   Occurrences(layouts[sp][ws].windows, wsid) = 1

\* Two windows of one application under the cursor, with menus and mission
\* control
EnvMouse ==
    [wids |-> {1, 2}, spaces |-> {<<1>>},
     frames |-> {Frame(1, 1, 100), Frame(1, 1, 50)},
     mouse |-> {FALSE}, modes |-> {"traditional", "scroll"}, lists |-> FALSE,
     acks |-> FALSE, stale |-> FALSE, errs |-> FALSE,
     txids |-> MaxTxidScroll, orders |-> FALSE, moves |-> FALSE]

NextMouse ==
    \/ ScreenParametersChanged(EnvMouse)
    \/ WindowCreated(EnvMouse)
    \/ ApplicationLaunched(EnvMouse)
    \/ ConfigUpdated(EnvMouse)
    \/ MenuOpened(EnvMouse)
    \/ MenuClosed(EnvMouse)
    \/ MissionControlNativeEntered(EnvMouse)
    \/ MissionControlNativeExited(EnvMouse)
    \/ MouseMovedOverWindow(EnvMouse)

SpecMouse == Init /\ [][NextMouse]_vars

\* C22: a MouseMovedOverWindow event handled while a menu is open or
\* mission control is active sends no raise request, in every layout mode
C22_NoRaiseUnderMenuOrMissionControl ==
    \A wsid \in EnvMouse.wids, order \in Orders(EnvMouse.wids),
       o \in Oracles(EnvMouse) :
        (menu_open_depth > 0 \/ mission_control_active)
            => handle_MouseMovedOverWindow(Cur, wsid, order, o).out.raises
                   = << >>

\* the rectangle of frame a holds the whole rectangle of frame b
Contains(a, b) == intersection(CGRect(a), CGRect(b)) = CGRect(b)

\* the check for occlusion decides: the candidate is known and in the
\* order, no menu is open and the window is in the active workspace of
\* its space
OcclusionDecides(wid, order) ==
    /\ wid \in DOMAIN windows
    /\ wid \in window_ids
    /\ \E i \in 1..Len(order) : order[i] = wid
    /\ menu_open_depth = 0
    /\ best_space_for_window(Cur, windows[wid].frame_monotonic) # None
    /\ is_window_in_active_workspace(Cur,
           best_space_for_window(Cur, windows[wid].frame_monotonic), wid)

C24_TerminationRemovesApp ==
    \A pid \in EnvPids(Env), o \in Oracles(Env) :
        /\ pid \notin handle_ApplicationThreadTerminated(Cur, pid, o).apps
        /\ pid \notin handle_ApplicationTerminated(Cur, pid, o).apps

\* One window and one or two screens: a space change can report more or
\* fewer spaces than there are screens
EnvDefer ==
    [EnvMC EXCEPT !.spaces = {<<1>>, <<1, 2>>, <<2, 1>>}]

NextDefer ==
    \/ ScreenParametersChanged(EnvDefer)
    \/ SpaceChanged(EnvDefer)
    \/ WindowCreated(EnvDefer)
    \/ ApplicationLaunched(EnvDefer)
    \/ MissionControlNativeEntered(EnvDefer)
    \/ MissionControlNativeExited(EnvDefer)

SpecDefer == Init /\ [][NextDefer]_vars

\* a space change is pending that does not fit the screens
DeferredPending ==
    /\ pending_space_change.some
    /\ Len(pending_space_change.spaces) # Len(screens)

\* a SpaceChanged that does not fit the screens changes no screen's space,
\* emits no layout event and is retained as pending_space_change
DeferredIsRetained ==
    \A spaces \in EnvDefer.spaces, ws_info \in Snapshots(EnvDefer),
       o \in Oracles(EnvDefer) :
        Len(spaces) # Len(screens)
            => LET r == handle_SpaceChanged(Cur, spaces, ws_info, o)
               IN  /\ r.screens = screens
                   /\ r.out.events = << >>
                   /\ r.pending_space_change =
                          [some |-> TRUE, spaces |-> spaces,
                           ws_info |-> ws_info]

\* the step leaves the change pending
StillPending ==
    /\ pending_space_change'.some
    /\ pending_space_change'.spaces = pending_space_change.spaces

\* the step applies the pending change: the screens have as many spaces as
\* the change, they take its spaces and nothing is pending any more
PendingApplied ==
    /\ Len(screens') = Len(pending_space_change.spaces)
    /\ screens' = pending_space_change.spaces
    /\ ~pending_space_change'.some

MoveCommands ==
    {Command("MoveNode", d, FALSE) : d \in {"Left", "Right"}}
        \cup {Command("ResizeWindowGrow", 0, FALSE)}

EnvNode ==
    [wids |-> {1}, spaces |-> {<<1, 2>>, <<2, 1>>},
     frames |-> {Frame(1, 1, 100), Frame(2, 1, 100)}, mouse |-> {FALSE},
     modes |-> {"scroll"}, lists |-> FALSE, acks |-> FALSE, stale |-> FALSE,
     errs |-> FALSE, txids |-> MaxTxidScroll, orders |-> FALSE,
     cmds |-> MoveCommands, moves |-> FALSE]

NextNode ==
    \/ ScreenParametersChanged(EnvNode)
    \/ WindowCreated(EnvNode)
    \/ WindowFrameChanged(EnvNode)
    \/ ApplicationLaunched(EnvNode)
    \/ CommandLayout(EnvNode)

SpecNode == Init /\ [][NextNode]_vars

\* MoveNode in the direction leaves the strip of the space: the selection
\* cannot move inside the strip and there is a next space
AtEdge(r, sp, direction) ==
    /\ sp \in r.exposed
    /\ r.vwm_active[sp] # None
    /\ ActiveLayout(r, sp).selected # None
    /\ position(ActiveLayout(r, sp).windows, ActiveLayout(r, sp).selected)
           # NoIdx
    /\ ~move_selection(ActiveLayout(r, sp), direction).moved
    /\ next_space(screen_spaces(r.screens), sp, direction) # None

\* the selected window of the source is absent from the source, is once in
\* the destination and has the width there it had in the source
Transferred(r0, r, sp, direction) ==
    LET src == ActiveLayout(r0, sp)
        wid == src.selected
        width == src.widths[position(src.windows, wid) + 1]
        to == next_space(screen_spaces(r0.screens), sp, direction)
        dst == ActiveLayout(r, to)
    IN  /\ Occurrences(ActiveLayout(r, sp).windows, wid) = 0
        /\ r.vwm_active[to] # None
        /\ Occurrences(dst.windows, wid) = 1
        /\ Len(dst.widths) = Len(dst.windows)
        /\ dst.widths[position(dst.windows, wid) + 1] = width

\* C26: MoveNode at the edge of a space moves the selected window to the
\* layout of the next space with its width: afterwards the window is absent
\* from the source layout and present exactly once in the destination
\* layout, with the width it had in the source
C26_MoveNodeTransfersWindowAndWidth ==
    \A sp \in CommandSpaces \ {None}, d \in {"Left", "Right"},
       o \in Oracles(EnvNode) :
        AtEdge(Cur, sp, d)
            => Transferred(Cur,
                           handle_Command_Layout(
                               Cur, Command("MoveNode", d, FALSE), sp, o),
                           sp, d)

\* One window on one screen, reported by its application and by the window
\* server in any order while the space of the screen changes
EnvOrder ==
    [wids |-> {1}, spaces |-> {<<1>>, <<2>>}, frames |-> {Frame(1, 1, 100)},
     mouse |-> {FALSE}, modes |-> {"scroll"}, lists |-> TRUE, acks |-> FALSE,
     stale |-> FALSE, errs |-> FALSE, txids |-> MaxTxidScroll,
     orders |-> FALSE, moves |-> FALSE, sids |-> {1, 2}]

NextOrder ==
    \/ ScreenParametersChanged(EnvOrder)
    \/ SpaceChanged(EnvOrder)
    \/ ApplicationLaunched(EnvOrder)
    \/ WindowCreated(EnvOrder)
    \/ WindowServerAppeared(EnvOrder)
    \/ WindowsDiscovered(EnvOrder)

SpecOrder == Init /\ [][NextOrder]_vars

\* the positions a window has in all layouts of the reactor
PositionsIn(r, w) ==
    {<<sp, ws, i>> \in Spaces \X Workspaces \X (1..8) :
        /\ i <= Len(r.layouts[sp][ws].windows)
        /\ r.layouts[sp][ws].windows[i] = w}

\* the window is in the window table, indexed by its window server id,
\* and has at most one position in at most one layout
RecordedOnce(r, w) ==
    /\ w \in DOMAIN r.windows
    /\ w \in r.window_ids
    /\ Cardinality(PositionsIn(r, w)) <= 1

\* a discovery reports the unknown window w, and then its WindowCreated
\* arrives
DiscoveredThenCreated(w, o) ==
    {handle_WindowCreated(
         handle_WindowsDiscovered(Cur, PidOf(w), new, {w}, {}, o),
         w, info, 0, FALSE, o) :
     new \in {n \in Discovered(EnvOrder, PidOf(w)) : w \in DOMAIN n},
     info \in WindowInfos(EnvOrder)}

\* C27: whatever the order in which WindowCreated(w), WindowServerAppeared
\* (wsid of w), SpaceChanged and a WindowsDiscovered that reports w arrive,
\* w is once in the window table, is indexed by its window server id and
\* has at most one position in at most one layout; this covers a window
\* that is discovered before its WindowCreated arrives
C27_AnyOrderRecordsWindowOnce ==
    /\ \A w \in DOMAIN windows : RecordedOnce(Cur, w)
    /\ \A w \in EnvOrder.wids \ DOMAIN windows, o \in Oracles(EnvOrder) :
           PidOf(w) \in apps /\ PositionsIn(Cur, w) = {}
               => \A r \in DiscoveredThenCreated(w, o) : RecordedOnce(r, w)

\* One window on one screen, dragged with the mouse and destroyed during
\* the drag
EnvDestroy == [EnvSwap EXCEPT !.wids = {1}]

NextDestroy ==
    \/ ScreenParametersChanged(EnvDestroy)
    \/ WindowCreated(EnvDestroy)
    \/ WindowDestroyed(EnvDestroy)
    \/ WindowFrameChanged(EnvDestroy)
    \/ MouseUp(EnvDestroy)
    \/ ApplicationLaunched(EnvDestroy)

SpecDestroy == Init /\ [][NextDestroy]_vars

\* no field of the reactor refers to the window
Forgotten(r, w) ==
    /\ w \notin DOMAIN r.windows
    /\ w \notin r.window_ids
    /\ w \notin DOMAIN r.window_tx_store
    /\ r.pending_drag_swap.dragged # w
    /\ r.pending_drag_swap.target # w
    /\ r.skip_layout_for_window # w
    /\ r.drag_manager.dragged # w
    /\ r.drag_manager.last_target # w
    /\ r.active_drag.window # w

\* C28: after WindowDestroyed(w) of a known window w nothing refers to w:
\* the window table, the index of window server ids and the tx-store have
\* no entry for it, WindowRemoved(w) was sent to the layout engine, and
\* neither the pending swap, skip_layout_for_window, the drag manager nor
\* the active drag session names it
C28_DestroyedWindowIsForgotten ==
    \A w \in DOMAIN windows, o \in Oracles(EnvDestroy) :
        LET r == handle_WindowDestroyed(Cur, w, o)
        IN  /\ <<"WindowRemoved", w, 0>> \in events_of(r, "WindowRemoved")
            /\ Forgotten(r, w)

\* Two windows of one application on two screens, laid out in scroll mode:
\* one layout pass writes to the application once for each screen
EnvScreens ==
    [wids |-> {1, 2}, spaces |-> {<<1, 2>>},
     frames |-> {Frame(1, 1, 100), Frame(2, 1, 100)}, mouse |-> {FALSE},
     modes |-> {"scroll"}, lists |-> FALSE, acks |-> FALSE, stale |-> FALSE,
     errs |-> FALSE, txids |-> MaxTxidScroll, orders |-> TRUE,
     moves |-> FALSE]

NextScreens ==
    \/ ScreenParametersChanged(EnvScreens)
    \/ WindowCreated(EnvScreens)
    \/ WindowDestroyed(EnvScreens)
    \/ ApplicationLaunched(EnvScreens)
    \/ ConfigUpdated(EnvScreens)

SpecScreens == Init /\ [][NextScreens]_vars

\* the windows of the application that an immediate pass from the reactor
\* writes: the ones the layout of a screen places
WrittenInPass(r, pid) ==
    {w \in DOMAIN r.windows :
        /\ PidOf(w) = pid
        /\ \E scr \in 1..Len(r.screens) :
              /\ r.screens[scr] # None
              /\ w \in DOMAIN calculate_layout_with_virtual_workspaces(
                                  r, r.screens[scr], scr)}

\* C29: the windows of one application that one immediate layout pass
\* writes share one transaction id: after the pass they all have the same
\* last_sent_txid, also when they are on different screens
C29_BatchedWritesShareOneTxid ==
    \A pid \in apps, o \in Oracles(EnvScreens) :
        /\ is_scroll_layout(Cur)
        /\ skip_layout_for_window = None
        /\ drag_manager.dragged = None
        => LET r == update_layout(Cur, FALSE, FALSE, o).r
           IN  \A w1 \in WrittenInPass(Cur, pid),
                  w2 \in WrittenInPass(Cur, pid) :
                   /\ r.sent[w1].last = r.windows[w1].last_sent_txid
                   /\ r.windows[w1].last_sent_txid =
                          r.windows[w2].last_sent_txid

\* Two windows on one screen, one of them dragged with the mouse while the
\* configuration is reloaded and the strip is scrolled
EnvDrag ==
    [wids |-> {1, 2}, spaces |-> {<<1>>},
     frames |-> {Frame(1, 1, 100), Frame(1, 2, 100)}, mouse |-> BOOLEAN,
     modes |-> {"scroll"}, lists |-> FALSE, acks |-> FALSE,
     stale |-> FALSE, errs |-> FALSE, txids |-> MaxTxid, orders |-> FALSE,
     cmds |-> {Command("ScrollWorkspace", 100, TRUE)}, moves |-> FALSE]

NextDrag ==
    \/ ScreenParametersChanged(EnvDrag)
    \/ WindowCreated(EnvDrag)
    \/ WindowFrameChanged(EnvDrag)
    \/ MouseUp(EnvDrag)
    \/ ApplicationLaunched(EnvDrag)
    \/ ConfigUpdated(EnvDrag)
    \/ CommandLayout(EnvDrag)

SpecDrag == Init /\ [][NextDrag]_vars

\* the step handles an event during a drag that goes on, and the event is
\* not the destruction of a known window
DuringDrag ==
    /\ in_drag
    /\ in_drag'
    /\ DOMAIN windows \subseteq DOMAIN windows'

\* C30: while a drag is in progress, handling an event sends no frame
\* write, unless the event is the WindowDestroyed of a known window; this
\* holds for every event, ConfigUpdated and ScrollWorkspace included
C30_NoWritesWhileDragging ==
    [][DuringDrag => sent' = sent]_vars

\* ------------------------------------------------------------------------
\* Two windows on one screen; one of them is dragged, by the mouse or
\* between screens, while the other one comes and goes
\* ------------------------------------------------------------------------
EnvSession ==
    [wids |-> {1, 2}, spaces |-> {<<1>>},
     frames |-> {Frame(1, 1, 100)}, mouse |-> BOOLEAN,
     modes |-> {"scroll"}, lists |-> FALSE, acks |-> FALSE, stale |-> FALSE,
     errs |-> FALSE,
     txids |-> MaxTxid, orders |-> FALSE, moves |-> FALSE]

NextSession ==
    \/ ScreenParametersChanged(EnvSession)
    \/ WindowCreated(EnvSession)
    \/ WindowDestroyed(EnvSession)
    \/ WindowFrameChanged(EnvSession)
    \/ WindowIsChangingScreens(EnvSession)
    \/ MouseUp(EnvSession)
    \/ ApplicationLaunched(EnvSession)

SpecSession == Init /\ [][NextSession]_vars

\* the drag session of window w exists before and after the step, which is
\* therefore no MouseUp
SessionLasts(w) ==
    /\ active_drag.window = w
    /\ active_drag'.window = w
    /\ w \in DOMAIN windows
    /\ w \in DOMAIN windows'

\* C31: while the drag session of a window lasts, no event sends a frame
\* write to the window or changes its last_sent_txid, whatever number of
\* layout passes run and however the session was started
C31_NoWriteToDraggedWindow ==
    [][\A w \in WindowIds :
          SessionLasts(w) =>
              /\ sent'[w] = sent[w]
              /\ windows'[w].last_sent_txid = windows[w].last_sent_txid]_vars

\* ------------------------------------------------------------------------
\* One window each of two applications on one screen, laid out with and
\* without animation
\* ------------------------------------------------------------------------
EnvAnim ==
    [wids |-> {1, 3}, spaces |-> {<<1>>},
     frames |-> {Frame(1, 1, 100), Frame(1, 2, 100)}, mouse |-> {FALSE},
     modes |-> {"traditional", "scroll"}, lists |-> FALSE, acks |-> FALSE,
     stale |-> FALSE, errs |-> FALSE, txids |-> MaxTxid, orders |-> FALSE,
     moves |-> FALSE]

NextAnim ==
    \/ ScreenParametersChanged(EnvAnim)
    \/ WindowCreated(EnvAnim)
    \/ WindowFrameChanged(EnvAnim)
    \/ ApplicationLaunched(EnvAnim)
    \/ ConfigUpdated(EnvAnim)

SpecAnim == Init /\ [][NextAnim]_vars

\* the logs of the events that can run an animated layout pass
AnimatedPasses(E) ==
    {handle_ConfigUpdated(Cur, mode, o).out :
        mode \in E.modes, o \in Oracles(E)}
    \cup UNION {{handle_WindowFrameChanged(Cur, wid, c.frame, c.last_seen,
                     c.requested, c.mouse_down, c.stale, o).out :
                    c \in FrameChanges(E, wid), o \in Oracles(E)} :
                   wid \in E.wids \cap DOMAIN windows}
    \cup {handle_WindowCreated(Cur, wid, info, 0, FALSE, o).out :
             wid \in {w \in E.wids \ DOMAIN windows : PidOf(w) \in apps},
             info \in WindowInfos(E), o \in Oracles(E)}

\* the ids of the IgnoreWindowEvent requests are the window server ids of
\* the animated windows (the window server id of window w is w), and every
\* IgnoreWindowEvent is followed, after the animation, by the
\* UnignoreWindowEvent of the same event type and id
IgnoresMatchAnimation(out) ==
    /\ {out.notify[i][3] : i \in {k \in DOMAIN out.notify :
                                     out.notify[k][1] = "IgnoreWindowEvent"}}
           = {out.animated[i] : i \in DOMAIN out.animated}
    /\ \A i \in DOMAIN out.notify :
           out.notify[i][1] = "IgnoreWindowEvent" =>
               \E j, k \in DOMAIN out.notify :
                   /\ i < k /\ k < j
                   /\ out.notify[k][1] = "run"
                   /\ out.notify[j] = <<"UnignoreWindowEvent",
                                        out.notify[i][2], out.notify[i][3]>>

\* C32: in an animated layout pass the window server notifications that
\* are ignored are exactly the move and resize notifications of the
\* animated windows, named by their window server ids, and every
\* IgnoreWindowEvent sent before the animation has its UnignoreWindowEvent
\* of the same id and event type after the animation
C32_IgnoredAreTheAnimatedWindows ==
    \A out \in AnimatedPasses(EnvAnim) : IgnoresMatchAnimation(out)

\* C33: while mission control is active no event applies a stashed
\* pending_space_change: a SpaceChanged received during mission control
\* stays pending, and the screens do not take its spaces, when a
\* ScreenParametersChanged is handled before mission control has exited
C33_NoCommitDuringMissionControl ==
    \A spaces \in EnvMC.spaces, other \in EnvMC.spaces,
       ws_info \in Snapshots(EnvMC), o \in Oracles(EnvMC) :
      \A nframes \in {0, Len(other)} :
        mission_control_active /\ Len(screens) > 0
        => LET stashed == handle_SpaceChanged(Cur, spaces, ws_info, o)
               r == handle_ScreenParametersChanged(stashed, nframes, other,
                                                   ws_info, o)
           IN  /\ r.mission_control_active
               /\ r.pending_space_change.some
               /\ r.pending_space_change.spaces = spaces
               /\ r.screens = other \/ r.screens = screens

\* ------------------------------------------------------------------------
\* One window on one screen with two workspaces, switched between in both
\* layout modes, whose application can lose its thread; events that change
\* no layout keep arriving
\* ------------------------------------------------------------------------
EnvSettle ==
    [wids |-> {1}, spaces |-> {<<1>>}, frames |-> {Frame(1, 1, 100)},
     mouse |-> {FALSE}, modes |-> {"traditional", "scroll"}, lists |-> FALSE,
     acks |-> FALSE, stale |-> FALSE, errs |-> FALSE,
     txids |-> MaxTxidScroll, orders |-> FALSE,
     cmds |-> {SwitchTo(0), SwitchTo(1)}, moves |-> FALSE]

NextSettle ==
    \/ ScreenParametersChanged(EnvSettle)
    \/ WindowCreated(EnvSettle)
    \/ ApplicationLaunched(EnvSettle)
    \/ ApplicationThreadTerminated(EnvSettle)
    \/ ConfigUpdated(EnvSettle)
    \/ CommandLayout(EnvSettle)
    \/ MenuClosed(EnvSettle)

\* the reactor takes a MenuClosed from its queue whenever handling it
\* changes its state
SpecSettle ==
    Init /\ [][NextSettle]_vars /\ WF_vars(MenuClosed(EnvSettle))

\* a window has got the last transaction id of the model
TxidsExhausted ==
    \E w \in DOMAIN windows : windows[w].last_sent_txid >= EnvSettle.txids

\* two more events that change no layout target, handled outside a drag,
\* end a workspace switch that is in flight
QuietEventsSettle ==
    \A o \in Oracles(EnvSettle) :
        active_workspace_switch /\ ~in_drag /\ ~TxidsExhausted
        => \/ ~handle_MenuClosed(handle_MenuClosed(Cur, o), o)
                   .active_workspace_switch
           \/ ~Bounded(EnvSettle, handle_MenuClosed(handle_MenuClosed(Cur, o), o))

\* C34: a workspace switch does not stay in flight forever: once
\* active_workspace_switch is set, events handled outside a drag that leave
\* the layout targets unchanged clear it, in the traditional and in the
\* scroll mode and also when the application of a laid-out window has no
\* handle
C34_WorkspaceSwitchSettles ==
    /\ []QuietEventsSettle
    /\ active_workspace_switch
           ~> (~active_workspace_switch \/ in_drag \/ TxidsExhausted)

\* ------------------------------------------------------------------------
\* One window on a screen that can lose its space, listed by the window
\* server and by the application, which can also list a window the reactor
\* does not know yet; mission control, a drag and a minimized window
\* ------------------------------------------------------------------------
EnvStale ==
    [wids |-> {1}, spaces |-> {<<1>>, <<None>>},
     frames |-> {Frame(1, 1, 100)}, mouse |-> {FALSE}, modes |-> {"scroll"},
     lists |-> TRUE, acks |-> FALSE, stale |-> FALSE, errs |-> FALSE,
     txids |-> MaxTxid, orders |-> FALSE, moves |-> FALSE]

NextStale ==
    \/ ScreenParametersChanged(EnvStale)
    \/ WindowCreated(EnvStale)
    \/ WindowIsChangingScreens(EnvStale)
    \/ MouseUp(EnvStale)
    \/ ApplicationLaunched(EnvStale)
    \/ WindowsDiscovered(EnvStale)
    \/ WindowMinimized(EnvStale)
    \/ MissionControlNativeEntered(EnvStale)
    \/ MissionControlNativeExited(EnvStale)

SpecStale == Init /\ [][NextStale]_vars

\* what a discovery of application pid can say of the windows of pid
DiscoveryReports(E, pid) ==
    [known_visible : SUBSET {w \in WindowIds : PidOf(w) = pid},
     unsuitable : SUBSET {w \in DOMAIN windows : PidOf(w) = pid}]

\* the stale-window cleanup of a discovery of pid must leave window w alone
CleanupExcludes(w, pid, known_visible) ==
    \/ mission_control_active
    \/ in_drag
    \/ pid \in pending_mission_control_refresh
    \/ suppress_stale_window_cleanup
    \/ windows[w].is_minimized
    \/ w \in known_visible

\* handling the event destroyed window w
DestroyedBy(r, w) ==
    \/ w \notin DOMAIN r.windows
    \/ <<"WindowRemoved", w, 0>> \in events_of(r, "WindowRemoved")

\* C35: the stale-window cleanup of WindowsDiscovered destroys no known
\* window while mission control is active, while a drag is in progress,
\* while the application has a pending refresh after mission control, while
\* the cleanup is suppressed, when the window is minimized and when the
\* application lists the window in known_visible
C35_CleanupSparesProtectedWindows ==
    \A pid \in apps, o \in Oracles(EnvStale) :
      \A new \in Discovered(EnvStale, pid),
         v \in DiscoveryReports(EnvStale, pid) :
        \A w \in DOMAIN windows :
            CleanupExcludes(w, pid, v.known_visible)
            => ~DestroyedBy(handle_WindowsDiscovered(Cur, pid, new,
                                v.known_visible, v.unsuitable, o), w)

\* mission control is active when a discovery reports a window that the
\* cleanup destroys once mission control is over
C35_Witness ==
    /\ mission_control_active
    /\ ~in_drag /\ ~suppress_stale_window_cleanup
    /\ \E w \in DOMAIN windows, o \in Oracles(EnvStale) :
        \E v \in DiscoveryReports(EnvStale, PidOf(w)) :
          /\ PidOf(w) \in apps
          /\ PidOf(w) \notin pending_mission_control_refresh
          /\ w \notin v.known_visible
          /\ ~windows[w].is_minimized
          /\ w \in DOMAIN handle_WindowsDiscovered(Cur, PidOf(w), << >>,
                              v.known_visible, v.unsuitable, o).windows
          /\ DestroyedBy(handle_WindowsDiscovered(
                             [Cur EXCEPT !.mission_control_active = FALSE],
                             PidOf(w), << >>, v.known_visible, v.unsuitable,
                             o), w)

\* ---- the widths of the strip when other windows come and go ----
\* Two windows of two applications on one screen, resized by the user and by
\* commands
EnvWidths ==
    [wids |-> {1, 3}, spaces |-> {<<1>>},
     frames |-> {Frame(1, 1, 100), Frame(1, 1, 25)}, mouse |-> {FALSE},
     modes |-> {"scroll"}, lists |-> FALSE, acks |-> FALSE, stale |-> FALSE,
     errs |-> FALSE, txids |-> MaxTxidResize, orders |-> FALSE,
     cmds |-> ResizeCommands,
     moves |-> FALSE]

NextWidths ==
    \/ ScreenParametersChanged(EnvWidths)
    \/ WindowCreated(EnvWidths)
    \/ WindowFrameChanged(EnvWidths)
    \/ ApplicationLaunched(EnvWidths)
    \/ CommandLayout(EnvWidths)

SpecWidths == Init /\ [][NextWidths]_vars

\* the width units of a window of a strip
width_of(s, wid) == s.widths[position(s.windows, wid) + 1]

\* the windows of s that are in s2 too have the width units they had
KeepsWidths(s, s2, wids) ==
    \A w \in wids :
        contains_window(s, w) /\ contains_window(s2, w) =>
            width_of(s2, w) = width_of(s, w)

\* C36 as stated: in scroll mode WindowRemoved of another window, and
\* WindowsOnScreenUpdated for a different application, leave the width units
\* of all remaining windows of every strip unchanged
C36_OtherWindowsKeepWidths ==
    \A sp \in Spaces, ws \in Workspaces :
        /\ \A w \in WindowIds :
               KeepsWidths(layouts[sp][ws],
                           engine_WindowRemoved(Cur, w).layouts[sp][ws],
                           WindowIds \ {w})
        /\ \A space \in Spaces, pid \in Pids :
               \A wins \in AppWindowLists(pid) :
                   KeepsWidths(layouts[sp][ws],
                       engine_WindowsOnScreenUpdated(Cur, space, pid, wins)
                           .layouts[sp][ws],
                       {w \in WindowIds : PidOf(w) # pid})

\* ---- the membership of the layouts ----
\* Three windows of two applications on one screen with two workspaces,
\* moved between the workspaces and toggled between tiled and floating
MemberCommands ==
    {Command("MoveWindowToWorkspace", i, FALSE) : i \in {0, 1}}
        \cup {Command("ToggleWindowFloating", 0, FALSE),
              Command("ScrollWorkspace", 0, TRUE)}

EnvMember ==
    [wids |-> {1, 2, 3}, spaces |-> {<<1>>, <<None>>}, frames |-> {Frame(1, 1, 100)},
     mouse |-> {FALSE}, modes |-> {"scroll"}, lists |-> FALSE,
     acks |-> FALSE, stale |-> FALSE, errs |-> FALSE,
     txids |-> MaxTxidAuto, orders |-> FALSE, cmds |-> MemberCommands,
     moves |-> FALSE]

NextMember ==
    \/ ScreenParametersChanged(EnvMember)
    \/ WindowCreated(EnvMember)
    \/ ApplicationLaunched(EnvMember)
    \/ CommandLayout(EnvMember)

SpecMember == Init /\ [][NextMember]_vars

\* the windows of a strip that are in S, in the order of the strip
members(s, S) == seq_filter(s.windows, S)

WindowsOfPid(pid) == {w \in WindowIds : PidOf(w) = pid}

\* C37: WindowsOnScreenUpdated(space, pid, windows) leaves the windows of
\* the other applications in the same layouts in the same relative order,
\* and when it reports no tiled window for pid the tiled windows of pid stay
\* in every layout of the space
C37_UpdateTouchesOnlyItsApp ==
    \A space \in Spaces, pid \in Pids :
        \A wins \in AppWindowLists(pid) :
            LET r == engine_WindowsOnScreenUpdated(Cur, space, pid, wins)
            IN  /\ \A sp \in Spaces, ws \in Workspaces :
                       members(r.layouts[sp][ws],
                               WindowIds \ WindowsOfPid(pid))
                           = members(layouts[sp][ws],
                                     WindowIds \ WindowsOfPid(pid))
                /\ seq_filter(wins, WindowIds \ floating) = << >> =>
                       \A ws \in Workspaces :
                           members(r.layouts[space][ws], WindowsOfPid(pid))
                               = members(layouts[space][ws],
                                         WindowsOfPid(pid))

\* a strip with windows of two applications, one of them between two of the
\* other: an update that lists one window of the first application removes
\* the other one, an update that lists none leaves both
C37_Witness ==
    \E space \in Spaces, ws \in Workspaces :
        /\ space \in exposed
        /\ Len(layouts[space][ws].windows) = 3
        /\ PidOf(layouts[space][ws].windows[2]) = 2
        /\ \E w \in WindowsOfPid(1) :
               Len(engine_WindowsOnScreenUpdated(Cur, space, 1, <<w>>)
                       .layouts[space][ws].windows) = 2
        /\ Len(engine_WindowsOnScreenUpdated(Cur, space, 1, << >>)
                   .layouts[space][ws].windows) = 3

\* a window is tiled when some layout holds it
is_tiled(r, wid) ==
    \E sp \in Spaces, ws \in Workspaces :
        contains_window(r.layouts[sp][ws], wid)

TiledOrFloating(r, wid) == wid \in r.floating \/ is_tiled(r, wid)

NotTiledAndFloating(r) ==
    \A w \in WindowIds : ~(w \in r.floating /\ is_tiled(r, w))

\* the windows of S that are tiled or floating before are so after
StayManaged(r, S) ==
    \A w \in S : TiledOrFloating(Cur, w) => TiledOrFloating(r, w)

\* C38 as stated: no window is both floating and in a layout, and a window
\* that is tiled or floating is still one of the two after
\* ToggleWindowFloating (with or without a space), MoveWindowToWorkspace,
\* WindowAdded, and WindowsOnScreenUpdated (for the windows it lists and the
\* windows of the other applications)
C38_TiledXorFloating ==
    /\ NotTiledAndFloating(Cur)
    /\ \A sp \in CommandSpaces, o \in Oracles(EnvMember) :
           \A cmd \in {Command("ToggleWindowFloating", 0, FALSE),
                       Command("MoveWindowToWorkspace", 0, FALSE),
                       Command("MoveWindowToWorkspace", 1, FALSE)} :
               LET r == handle_Command_Layout(Cur, cmd, sp, o)
               IN  NotTiledAndFloating(r) /\ StayManaged(r, WindowIds)
    /\ \A sp \in CommandSpaces \ {None} :
           /\ \A w \in WindowIds :
                  LET r == engine_WindowAdded(Cur, sp, w)
                  IN  NotTiledAndFloating(r) /\ StayManaged(r, WindowIds)
           /\ \A pid \in Pids :
                  \A wins \in AppWindowLists(pid) :
                      LET r == engine_WindowsOnScreenUpdated(Cur, sp, pid,
                                                             wins)
                      IN  /\ NotTiledAndFloating(r)
                          /\ StayManaged(r,
                                 {w \in WindowIds :
                                     \/ PidOf(w) # pid
                                     \/ \E i \in 1..Len(wins) : wins[i] = w})

\* ---- the end of a drag ----
\* nothing of a drag is left in r
DragEnded(r) ==
    /\ ~r.in_drag
    /\ r.active_drag = NoDrag
    /\ r.pending_drag_swap = NoSwap
    /\ r.skip_layout_for_window = None
    /\ r.drag_manager = DragManager_reset

\* the pending swaps that name a window the reactor does not know
LostSwaps ==
    {[dragged |-> d, target |-> t] : d \in WindowIds, t \in WindowIds}
        \ {[dragged |-> d, target |-> t] : d \in DOMAIN windows,
                                           t \in DOMAIN windows}

\* C39: after MouseUp, in whatever state the drag was, in_drag is false,
\* there is no active drag session, no pending swap, no window to skip and
\* the drag manager is reset; and MouseUp with a pending swap that names a
\* window the reactor no longer knows ends the drag too and swaps nothing
C39_MouseUpEndsDrag ==
    \A o \in Oracles(EnvSession) :
        /\ DragEnded(handle_MouseUp(Cur, o))
        /\ \A swap \in LostSwaps :
               LET r == handle_MouseUp(
                            [Cur EXCEPT !.pending_drag_swap = swap], o)
               IN  DragEnded(r) /\ r.out.swaps = << >>

\* MouseUp arrives during a drag with a session, a pending swap, a window
\* to skip and a dragged window of the drag manager
C39_Witness ==
    /\ in_drag
    /\ active_drag.window # None
    /\ pending_drag_swap # NoSwap
    /\ skip_layout_for_window # None
    /\ drag_manager.dragged # None
    /\ \E o \in Oracles(EnvSession) :
           handle_MouseUp(Cur, o).out.swaps # << >>

\* ---- the selection of the strip ----
SelectionValid(s) ==
    /\ s.selected = None <=> Len(s.windows) = 0
    /\ s.selected # None => contains_window(s, s.selected)

\* C40: in every scroll layout, in every reachable state and after one more
\* operation of the strip (a command, a swap, the window list of an
\* application, a window removed or focused, the selected window moved to
\* another layout), selected is empty exactly when the layout has no window
\* and is otherwise a window of the strip
C40_SelectionValid ==
    /\ \A s \in AllLayouts(Cur) : SelectionValid(s)
    /\ \A r \in AfterStripOperation(EnvScroll) :
           \A s \in AllLayouts(r) : SelectionValid(s)
    /\ \A sp \in Spaces, ws \in Workspaces, sp2 \in Spaces, ws2 \in Workspaces :
           <<sp, ws>> # <<sp2, ws2>> =>
               LET both == move_selection_to_layout_after_selection(
                               layouts[sp][ws], layouts[sp2][ws2])
               IN  SelectionValid(both.from) /\ SelectionValid(both.to)
    /\ \A s \in AllLayouts(Cur), pid \in Pids :
           SelectionValid(remove_windows_for_app(s, pid))

\* a strip of three windows of two applications loses its selected window:
\* to WindowRemoved, to the removal of the windows of its application, and
\* to another layout
C40_Witness ==
    \E sp \in Spaces, ws \in Workspaces, ws2 \in Workspaces :
        LET s == layouts[sp][ws]
        IN  /\ Len(s.windows) = 3
            /\ s.selected # None
            /\ PidOf(s.selected) = 1
            /\ engine_WindowRemoved(Cur, s.selected).layouts[sp][ws].selected
                   \in WindowIds \ {s.selected}
            /\ remove_windows_for_app(s, 1).selected = 3
            /\ ws2 # ws
            /\ move_selection_to_layout_after_selection(s, layouts[sp][ws2])
                   .to.selected = s.selected
====
